---- MODULE Spec2Model ----
(***************************************************************************)
(* Model of the ModKit bootstrap layer of cyberfabric-core:                *)
(*   libs/modkit/src/bootstrap/oop.rs   OoP configuration merge and boot   *)
(*   libs/modkit/src/bootstrap/run.rs   host entrypoints, signal hooking   *)
(***************************************************************************)
EXTENDS Integers, Sequences, FiniteSets, TLC

VARIABLES
    target,          \* merge_json_objects: the &mut target (mutated in place)
    source,          \* merge_json_objects: the source value
    target0,         \* the value target had when merge_json_objects was called
    merged,          \* TRUE once merge_json_objects has returned
    local_config,    \* the AppConfig loaded from the local --config file
    module_name,     \* OopRunOptions.module_name
    rendered_config, \* Option<RenderedModuleConfig> read from MODKIT_MODULE_CONFIG
    serde_skip_none, \* whether the Serialize derives skip None fields
    built,           \* what build_oop_config_and_db returned, None before
    entry,           \* the entrypoint the process runs: oop, server or migrate
    main,            \* where the entrypoint's own future stands
    opts,            \* OopRunOptions (print_config) and the build's features
    env_config,      \* the MODKIT_MODULE_CONFIG environment variable
    cancel,          \* the root CancellationToken: TRUE once cancelled
    sig,             \* where the signal task stands
    pending,         \* signals delivered to the waiter and not yet consumed
    delivered,       \* number of OS signals delivered to the process
    hb,              \* where the heartbeat task stands
    heartbeats,      \* number of heartbeat RPCs started
    otel_layer,      \* the tracing configuration handed to init_tracing
    stdout,          \* what the process printed
    error,           \* the message of the error the entrypoint returned
    hb_failures,     \* heartbeat RPCs that failed since the last success
    rpcs,            \* the calls made on the directory service, in order
    phases,          \* the runtime phases entered, in order
    oop_options,     \* the `oop` spawn options handed to the runtime
    children,        \* the OoP modules spawned as child processes
    migration,       \* outcome of each module's migration, in registry order
    called,          \* the entrypoints main() dispatched to, in order
    links,           \* the file system: what the symlink <base>/link points to
    path,            \* parse_local: the path argument
    parsed           \* what parse_local returned, None before

jsonVars == <<target, source, target0, merged>>
buildVars == <<local_config, module_name, rendered_config, serde_skip_none,
               built>>
fsVars == <<links, path, parsed>>
runVars == <<hb_failures, rpcs, phases, oop_options, children, migration>>
procVars == <<entry, main, opts, env_config, cancel, sig, pending,
              delivered, hb, heartbeats, otel_layer, stdout, error,
              hb_failures, rpcs, phases, oop_options, children, migration,
              called, links, path, parsed>>
vars == <<target, source, target0, merged, local_config, module_name,
          rendered_config, serde_skip_none, built, entry, main, opts,
          env_config, cancel, sig, pending, delivered, hb, heartbeats,
          otel_layer, stdout, error, hb_failures, rpcs, phases,
          oop_options, children, migration, called, links, path,
          parsed>>

----------------------------------------------------------------------------
(* Bounds of the model                                                     *)

\* largest number of nodes (leaves and objects) of a JSON input
MaxNodes == 4

\* largest number of nodes of a module's `config` section
MaxCfgNodes == 3

\* largest number of OS signals delivered to one process
MaxSignals == 2

\* largest number of heartbeat RPCs one process starts
MaxHeartbeats == 3

----------------------------------------------------------------------------
(* serde_json::Value                                                       *)

JNull == [t |-> "null"]
JStr(s) == [t |-> "str", v |-> s]
JObj(f) == [t |-> "obj", m |-> f]
JArr(s) == [t |-> "arr", e |-> s]

EmptyMap == <<>>
EmptyObj == JObj(EmptyMap)

\* Value::is_object / Value::is_null
is_object(v) == v.t = "obj"
is_null(v) == v.t = "null"

\* Map::contains_key
contains_key(obj, key) == key \in DOMAIN obj

\* Map::insert (adds the key or replaces its value)
insert(obj, key, value) ==
    [k \in DOMAIN obj \cup {key} |-> IF k = key THEN value ELSE obj[k]]

\* Value::get(key): Some(&v) iff the value is an object holding the key
has_key(v, key) == is_object(v) /\ contains_key(v.m, key)

----------------------------------------------------------------------------
(* merge_json_objects (oop.rs 324-344)                                     *)

\* a slip that replaces a nested object instead of recursing into it
RECURSIVE merge_entries_shallow(_, _, _)
merge_entries_shallow(target_obj, source_obj, keys) ==
    IF keys = {} THEN target_obj
    ELSE LET key == CHOOSE k \in keys : TRUE
         IN merge_entries_shallow(insert(target_obj, key, source_obj[key]),
                                  source_obj, keys \ {key})

RECURSIVE merge_json_objects(_, _)
RECURSIVE merge_entries(_, _, _)

\* the loop `for (key, value) in source_obj` over the entries still to visit
merge_entries(target_obj, source_obj, keys) ==
    IF keys = {} THEN target_obj
    ELSE LET key == CHOOSE k \in keys : TRUE
             value == source_obj[key]
             step ==
                 IF contains_key(target_obj, key)
                 THEN IF is_object(target_obj[key]) /\ is_object(value)
                      THEN [target_obj EXCEPT
                               ![key] = merge_json_objects(@, value)]
                      ELSE [target_obj EXCEPT ![key] = value]
                 ELSE insert(target_obj, key, value)
         IN merge_entries(step, source_obj, keys \ {key})

\* a slip that leaves target alone when one side is not an object
merge_json_objects_keep_target(tgt, src) ==
    IF is_object(tgt) /\ is_object(src)
    THEN JObj(merge_entries(tgt.m, src.m, DOMAIN src.m))
    ELSE tgt

merge_json_objects(tgt, src) ==
    IF is_object(tgt) /\ is_object(src)
    THEN JObj(merge_entries(tgt.m, src.m, DOMAIN src.m))
    ELSE src

----------------------------------------------------------------------------
(* Option<T>                                                               *)

None == [some |-> FALSE]
Some(x) == [some |-> TRUE, v |-> x]

JNum(n) == [t |-> "num", n |-> n]
JBool(b) == [t |-> "bool", b |-> b]

----------------------------------------------------------------------------
(* merge_logging_configs (oop.rs 197-208)                                  *)

\* HashMap::into_iter: the entries of a map, in some order
RECURSIVE into_iter(_)
into_iter(map) ==
    IF DOMAIN map = {} THEN <<>>
    ELSE LET k == CHOOSE x \in DOMAIN map : TRUE
         IN <<<<k, map[k]>>>> \o into_iter([x \in DOMAIN map \ {k} |-> map[x]])

\* Iterator::collect into a HashMap: a later entry replaces an earlier one
RECURSIVE collect(_)
collect(entries) ==
    IF entries = <<>> THEN EmptyMap
    ELSE LET last == entries[Len(entries)]
         IN insert(collect(SubSeq(entries, 1, Len(entries) - 1)),
                   last[1], last[2])

\* Option::unwrap_or_default on a LoggingConfig
unwrap_or_default(opt) == IF opt.some THEN opt.v ELSE EmptyMap

\* a slip that chains the two maps the other way round (master wins)
merge_logging_configs_master_last(master, local) ==
    collect(into_iter(local) \o into_iter(unwrap_or_default(master)))

merge_logging_configs(master, local) ==
    collect(into_iter(unwrap_or_default(master)) \o into_iter(local))

----------------------------------------------------------------------------
(* serde_json::to_value of the typed database configuration                *)
(* (DbConnConfig, PoolCfg, GlobalDatabaseConfig: oop_tests.rs 331-378)     *)

DbConnFields == {"engine", "server", "dsn", "host", "port", "user",
                 "password", "dbname", "file", "path", "params", "pool"}
PoolFields == {"max_conns", "min_conns", "acquire_timeout", "idle_timeout",
               "max_lifetime", "test_before_acquire"}

\* a struct of Option fields as a JSON object; skip_none tells whether the
\* derive skips a None field or writes it as null
ser_pool(pool, skip_none) ==
    JObj([f \in {x \in PoolFields : ~skip_none \/ pool[x].some} |->
            IF pool[f].some THEN pool[f].v ELSE JNull])

ser_db_conn(conn, skip_none) ==
    JObj([f \in {x \in DbConnFields : ~skip_none \/ conn[x].some} |->
            IF ~conn[f].some THEN JNull
            ELSE IF f = "pool" THEN ser_pool(conn[f].v, skip_none)
            ELSE IF f = "params" THEN JObj(conn[f].v)
            ELSE conn[f].v])

ser_global_db(global, skip_none) ==
    JObj([f \in {"servers"} \cup
                (IF ~skip_none \/ global.auto_provision.some
                 THEN {"auto_provision"} ELSE {}) |->
            IF f = "servers"
            THEN JObj([n \in DOMAIN global.servers |->
                         ser_db_conn(global.servers[n], skip_none)])
            ELSE IF global.auto_provision.some
                 THEN JBool(global.auto_provision.v) ELSE JNull])

----------------------------------------------------------------------------
(* build_merged_db_options (oop.rs 214-322)                                *)

\* HashMap::get
map_get(map, key) == IF key \in DOMAIN map THEN Some(map[key]) ELSE None

\* Value::get
value_get(val, key) == IF has_key(val, key) THEN Some(val.m[key]) ELSE None

has_rendered_db(rendered_db) ==
    rendered_db.some /\ (rendered_db.v.module.some \/ rendered_db.v.global.some)

\* a slip that looks for the local database with a non-null test
has_local_db_non_null(local, name) ==
    \/ local.database.some
    \/ /\ name \in DOMAIN local.modules
       /\ has_key(local.modules[name], "database")
       /\ ~is_null(local.modules[name].m["database"])

has_local_db(local, name) ==
    \/ local.database.some
    \/ /\ map_get(local.modules, name).some
       /\ value_get(local.modules[name], "database").some

\* Step 1: the rendered database config from master as base
rendered_base(name, rendered_db, skip_none) ==
    LET c0 == EmptyMap
        c1 == IF rendered_db.some /\ rendered_db.v.global.some
              THEN insert(c0, "database",
                          ser_global_db(rendered_db.v.global.v, skip_none))
              ELSE c0
        c2 == IF rendered_db.some /\ rendered_db.v.module.some
              THEN insert(c1, "modules",
                     JObj(insert(EmptyMap, name,
                       JObj(insert(EmptyMap, "database",
                         ser_db_conn(rendered_db.v.module.v, skip_none))))))
              ELSE c1
    IN c2

\* Step 2a: overlay the local global database config
overlay_local_global(merged_config, local, skip_none) ==
    IF local.database.some
    THEN LET local_db_json == ser_global_db(local.database.v, skip_none)
         IN IF contains_key(merged_config, "database")
            THEN [merged_config EXCEPT
                    !["database"] = merge_json_objects(@, local_db_json)]
            ELSE insert(merged_config, "database", local_db_json)
    ELSE merged_config

\* a slip that lets the local module database replace the rendered one
overlay_local_module_replace(merged_config, local, name) ==
    IF /\ map_get(local.modules, name).some
       /\ value_get(local.modules[name], "database").some
    THEN insert(merged_config, "modules",
           JObj(insert(EmptyMap, name,
             JObj(insert(EmptyMap, "database",
                         local.modules[name].m["database"])))))
    ELSE merged_config

\* Step 2b: overlay the local module database config
overlay_local_module(merged_config, local, name) ==
    IF /\ map_get(local.modules, name).some
       /\ value_get(local.modules[name], "database").some
    THEN LET local_module_db == local.modules[name].m["database"]
             modules == IF contains_key(merged_config, "modules")
                        THEN merged_config["modules"] ELSE EmptyObj
             module_entry == IF has_key(modules, name)
                             THEN modules.m[name] ELSE EmptyObj
             new_entry ==
                 IF is_object(module_entry)
                 THEN IF contains_key(module_entry.m, "database")
                      THEN JObj([module_entry.m EXCEPT !["database"] =
                                   merge_json_objects(@, local_module_db)])
                      ELSE JObj(insert(module_entry.m, "database",
                                       local_module_db))
                 ELSE module_entry
             new_modules ==
                 IF is_object(modules)
                 THEN JObj(insert(modules.m, name, new_entry))
                 ELSE modules
         IN insert(merged_config, "modules", new_modules)
    ELSE merged_config

\* the merged configuration handed to DbManager::from_figment
merged_db_config(name, rendered_db, local, skip_none) ==
    overlay_local_module(
        overlay_local_global(rendered_base(name, rendered_db, skip_none),
                             local, skip_none),
        local, name)

\* DbOptions; manager_ok tells whether DbManager::from_figment succeeds
DbNone == [kind |-> "None"]
DbManager(cfg) == [kind |-> "Manager", merged_config |-> JObj(cfg)]
DbErr == [kind |-> "Err"]

build_merged_db_options(name, rendered_db, local, skip_none, manager_ok) ==
    IF ~has_rendered_db(rendered_db) /\ ~has_local_db(local, name)
    THEN DbNone
    ELSE IF manager_ok
         THEN DbManager(merged_db_config(name, rendered_db, local,
                                         skip_none))
         ELSE DbErr

----------------------------------------------------------------------------
(* build_oop_config_and_db (oop.rs 134-195)                                *)

\* the module entry after `entry(module_name).or_insert_with(|| json!({}))`
entry_or_insert(modules, name) ==
    IF name \in DOMAIN modules THEN modules[name] ELSE EmptyObj

\* a slip that deep-merges the local config section over the rendered one
final_config_deep_merge(local, name, rendered) ==
    IF rendered.some
    THEN LET module_entry == entry_or_insert(local.modules, name)
             new_entry ==
                 IF is_object(module_entry)
                 THEN IF contains_key(module_entry.m, "config")
                      THEN JObj([module_entry.m EXCEPT !["config"] =
                                   merge_json_objects(rendered.v.config, @)])
                      ELSE JObj(insert(module_entry.m, "config",
                                       rendered.v.config))
                 ELSE module_entry
         IN [local EXCEPT !.modules = insert(@, name, new_entry)]
    ELSE local

\* a slip's view of rendered_config.and_then(|r| r.logging)
and_then_logging(rendered) == IF rendered.some THEN rendered.v.logging ELSE None

\* a slip that forgets the is_null test on the local config section
final_config_no_null_test(local, name, rendered) ==
    IF rendered.some
    THEN LET module_entry == entry_or_insert(local.modules, name)
             new_entry ==
                 IF is_object(module_entry)
                 THEN IF ~contains_key(module_entry.m, "config")
                      THEN JObj(insert(module_entry.m, "config",
                                       rendered.v.config))
                      ELSE module_entry
                 ELSE module_entry
         IN [local EXCEPT !.modules = insert(@, name, new_entry)]
    ELSE local

\* a slip that creates the module entry in standalone mode too
final_config_always_entry(local, name, rendered) ==
    LET module_entry == entry_or_insert(local.modules, name)
        new_entry ==
            IF /\ rendered.some
               /\ is_object(module_entry)
               /\ (\/ ~contains_key(module_entry.m, "config")
                   \/ is_null(module_entry.m["config"]))
            THEN JObj(insert(module_entry.m, "config", rendered.v.config))
            ELSE module_entry
    IN [local EXCEPT !.modules = insert(@, name, new_entry)]

\* a slip that writes the merged logging into the final config
final_config_with_logging(local, name, rendered) ==
    LET final == IF rendered.some
                 THEN final_config_always_entry(local, name, rendered)
                 ELSE local
    IN  [final EXCEPT !.logging =
            merge_logging_configs(and_then_logging(rendered), local.logging)]

\* lines 142-177: the final AppConfig
final_config_of(local, name, rendered) ==
    IF rendered.some
    THEN LET module_entry == entry_or_insert(local.modules, name)
             new_entry ==
                 IF is_object(module_entry)
                 THEN IF \/ ~contains_key(module_entry.m, "config")
                         \/ is_null(module_entry.m["config"])
                      THEN JObj(insert(module_entry.m, "config",
                                       rendered.v.config))
                      ELSE module_entry
                 ELSE module_entry
         IN [local EXCEPT !.modules = insert(@, name, new_entry)]
    ELSE local

\* rendered_config.as_ref().and_then(|r| r.logging.as_ref()) and the like
and_then(opt, field) == IF opt.some THEN opt.v[field] ELSE None

BuildErr == [ok |-> FALSE]
BuildOk(final_config, merged_logging, db_options) ==
    [ok |-> TRUE, final_config |-> final_config,
     merged_logging |-> merged_logging, db_options |-> db_options]

build_oop_config_and_db(local, name, rendered, skip_none, manager_ok) ==
    LET final_config == final_config_of(local, name, rendered)
        final_logging ==
            merge_logging_configs(and_then(rendered, "logging"), local.logging)
        db_options ==
            build_merged_db_options(name, and_then(rendered, "database"),
                                    local, skip_none, manager_ok)
    IN IF db_options = DbErr THEN BuildErr
       ELSE BuildOk(final_config, final_logging, db_options)

----------------------------------------------------------------------------
(* Bounded JSON inputs                                                     *)

Keys == {"a", "b"}
Scalars == {JStr("1"), JStr("2")}

RECURSIVE JsonOfSize(_, _)
RECURSIVE ObjMaps(_, _, _)

\* the maps over a subset of keys whose values have n nodes in total
ObjMaps(keys, n, leaves) ==
    IF keys = {} THEN (IF n = 0 THEN {EmptyMap} ELSE {})
    ELSE LET k == CHOOSE x \in keys : TRUE
             rest == keys \ {k}
         IN ObjMaps(rest, n, leaves) \cup
            UNION { { insert(f, k, v) : v \in JsonOfSize(i, leaves),
                                        f \in ObjMaps(rest, n - i, leaves) }
                    : i \in 1..n }

\* the JSON values of exactly n nodes
JsonOfSize(n, leaves) ==
    (IF n = 1 THEN leaves ELSE {}) \cup
    { JObj(f) : f \in ObjMaps(Keys, n - 1, leaves) }

JsonUpTo(n, leaves) == UNION { JsonOfSize(i, leaves) : i \in 1..n }

JsonInputs == JsonUpTo(MaxNodes, Scalars)

----------------------------------------------------------------------------
(* Bounded configurations                                                  *)

\* AppConfig (fields as in minimal_app_config, oop_tests.rs 19-30)
AppConfig(database, logging, tracing, modules) ==
    [server |-> [home_dir |-> "home"], database |-> database,
     logging |-> logging, tracing |-> tracing, modules_dir |-> None,
     modules |-> modules]

\* RenderedModuleConfig (fields as in oop_tests.rs 622-633)
Rendered(database, config, logging, tracing) ==
    [database |-> database, config |-> config, logging |-> logging,
     tracing |-> tracing]

\* Section, reduced to its console level and its file
Section(level, file) == [console_level |-> level, file |-> file]
Sections == {Section("INFO", "logs/master.log"),
             Section("DEBUG", "logs/local.log"),
             Section("INFO", "logs/local.log")}
LogKeys == {"default", "sqlx", "api"}
LoggingMaps == UNION { [ks -> Sections] : ks \in SUBSET LogKeys }
DefaultLogging == [default |-> Section("INFO", "logs/hyperspot.log")]

\* DbConnConfig and PoolCfg values
Pool(max_conns, acquire_timeout) ==
    [f \in PoolFields |->
        IF f = "max_conns" THEN max_conns
        ELSE IF f = "acquire_timeout" THEN acquire_timeout ELSE None]
Conn(server, file, params, pool) ==
    [f \in DbConnFields |->
        IF f = "engine" THEN Some(JStr("sqlite"))
        ELSE IF f = "server" THEN server
        ELSE IF f = "file" THEN file
        ELSE IF f = "params" THEN params
        ELSE IF f = "pool" THEN pool ELSE None]
Global(servers, auto_provision) ==
    [servers |-> servers, auto_provision |-> auto_provision]

Pools == {None, Some(Pool(Some(JNum(5)), Some(JStr("30s")))),
          Some(Pool(None, Some(JStr("30s"))))}
ModuleDbs ==
    { Conn(server, file, params, pool) :
        server \in {None, Some(JStr("sqlite_main"))},
        file \in {None, Some(JStr("master.db"))},
        params \in {None, Some([WAL |-> JStr("true")])},
        pool \in Pools }
ServerMaps ==
    { EmptyMap,
      [sqlite_main |-> Conn(None, None, Some([WAL |-> JStr("true")]),
                            Some(Pool(Some(JNum(5)), Some(JStr("30s")))))],
      [sqlite_main |-> Conn(None, Some(JStr("local.db")), None, None)],
      [new_server |-> Conn(None, None, None, None)] }
Globals ==
    { Global(servers, ap) : servers \in ServerMaps,
                            ap \in {None, Some(TRUE), Some(FALSE)} }
\* the local module's `database` value, as raw JSON
LocalMaxConns == {JNum(10), JNum(5)}
OnlyMaxConns == { JObj([pool |-> JObj([max_conns |-> n])]) : n \in LocalMaxConns }
LocalModuleDbs ==
    OnlyMaxConns \cup
    { JNull, EmptyObj, JStr("x"),
      JObj([file |-> JStr("local_override.db")]),
      JObj([params |-> JObj([new_param |-> JStr("value")])]),
      JObj([pool |-> JNull]) }

\* the values a module's `config` section takes
ConfigVals == {JNull, JArr(<<>>)} \cup JsonUpTo(MaxCfgNodes, Scalars)

NonObjects == {JNull, JStr("x"), JArr(<<>>)}

\* the local entries modules.<name>: with and without a `config` section
ConfigEntries ==
    NonObjects \cup
    { JObj(f) : f \in UNION { [ks -> ConfigVals] : ks \in SUBSET {"config"} } }
    \cup
    { JObj([config |-> c, database |-> EmptyObj]) : c \in ConfigVals }
    \cup { JObj([database |-> EmptyObj]) }

OtherModule == JObj([config |-> JObj([a |-> JStr("other")])])
ModuleNames == {"m", "other"}

\* inputs that vary the module's config section
ConfigInputs ==
    { [local |-> AppConfig(None, DefaultLogging, None, mods),
       rendered |-> r, skip_none |-> TRUE] :
        mods \in { [other |-> OtherModule] } \cup
                 { [m |-> e, other |-> OtherModule] : e \in ConfigEntries },
        r \in {None} \cup
              { Some(Rendered(None, c, None, None)) : c \in ConfigVals } }

\* inputs that vary the logging maps
LoggingInputs ==
    { [local |-> AppConfig(None, l, None, EmptyMap),
       rendered |-> r, skip_none |-> TRUE] :
        l \in LoggingMaps \cup {DefaultLogging},
        r \in {None} \cup
              { Some(Rendered(None, EmptyObj, lg, None)) :
                  lg \in {None} \cup {Some(x) : x \in LoggingMaps} } }

OneGlobal ==
    Global([sqlite_main |-> Conn(None, None, Some([WAL |-> JStr("true")]),
                                 Some(Pool(Some(JNum(5)), Some(JStr("30s")))))],
           Some(TRUE))
OneModuleDb ==
    Conn(Some(JStr("sqlite_main")), Some(JStr("module.db")), None, None)

\* inputs that vary the module's database section on both sides
ModuleDbInputs ==
    { [local |-> AppConfig(g, DefaultLogging, None, mods),
       rendered |-> r, skip_none |-> skip] :
        g \in {None, Some(OneGlobal)},
        mods \in {EmptyMap, [m |-> EmptyObj], [m |-> JStr("x")]} \cup
                 { [m |-> JObj([database |-> d])] : d \in LocalModuleDbs },
        r \in {None} \cup
              { Some(Rendered(d, EmptyObj, None, None)) :
                  d \in {None} \cup
                        { Some([global |-> rg, module |-> rm]) :
                            rg \in {None, Some(OneGlobal)},
                            rm \in {None} \cup {Some(x) : x \in ModuleDbs} } },
        skip \in BOOLEAN }

\* inputs that vary the global database section on both sides
GlobalDbInputs ==
    { [local |-> AppConfig(g, DefaultLogging, None, mods),
       rendered |-> r, skip_none |-> skip] :
        g \in {None} \cup {Some(x) : x \in Globals},
        mods \in {EmptyMap, [m |-> JObj([database |-> EmptyObj])]},
        r \in {None} \cup
              { Some(Rendered(d, EmptyObj, None, None)) :
                  d \in {None} \cup
                        { Some([global |-> rg, module |-> rm]) :
                            rg \in {None} \cup {Some(x) : x \in Globals},
                            rm \in {None, Some(OneModuleDb)} } },
        skip \in BOOLEAN }

DbInputs == ModuleDbInputs \cup GlobalDbInputs

BuildInputs == ConfigInputs \cup LoggingInputs \cup DbInputs

----------------------------------------------------------------------------
(* Specification of merge_json_objects on bounded inputs                   *)

\* the variables of a part of the program that is not running
JsonIdle ==
    /\ target = JNull
    /\ source = JNull
    /\ target0 = JNull
    /\ merged = FALSE

BuildIdle ==
    /\ local_config = AppConfig(None, EmptyMap, None, EmptyMap)
    /\ module_name = "m"
    /\ rendered_config = None
    /\ serde_skip_none = TRUE
    /\ built = None

\* no parse_local call is modelled
FsIdle ==
    /\ links = None
    /\ path = [absolute |-> TRUE, components |-> <<>>]
    /\ parsed = None

ProcIdle ==
    /\ entry = "none"
    /\ main = "idle"
    /\ opts = [print_config |-> FALSE, otel |-> FALSE]
    /\ env_config = None
    /\ cancel = FALSE
    /\ sig = "none"
    /\ pending = {}
    /\ delivered = 0
    /\ hb = "none"
    /\ heartbeats = 0
    /\ otel_layer = None
    /\ stdout = <<>>
    /\ error = ""
    /\ hb_failures = 0
    /\ rpcs = <<>>
    /\ phases = <<>>
    /\ oop_options = None
    /\ children = {}
    /\ migration = <<>>
    /\ called = <<>>
    /\ FsIdle

InitJson ==
    /\ target \in JsonInputs
    /\ source \in JsonInputs
    /\ target0 = target
    /\ merged = FALSE
    /\ BuildIdle
    /\ ProcIdle

MergeJsonObjects ==
    /\ ~merged
    /\ target' = merge_json_objects(target, source)
    /\ merged' = TRUE
    /\ UNCHANGED <<source, target0>>
    /\ UNCHANGED buildVars
    /\ UNCHANGED procVars

NextJson == MergeJsonObjects

SpecJson == InitJson /\ [][NextJson]_vars

----------------------------------------------------------------------------
(* Specification of build_oop_config_and_db on bounded inputs              *)

InitBuild ==
    /\ JsonIdle
    /\ \E i \in BuildInputs :
         /\ local_config = i.local
         /\ rendered_config = i.rendered
         /\ serde_skip_none = i.skip_none
    /\ module_name = "m"
    /\ built = None
    /\ ProcIdle

BuildOopConfigAndDb ==
    /\ built = None
    /\ \E manager_ok \in BOOLEAN :
         built' = Some(build_oop_config_and_db(local_config, module_name,
                           rendered_config, serde_skip_none, manager_ok))
    /\ UNCHANGED <<local_config, module_name, rendered_config, serde_skip_none>>
    /\ UNCHANGED <<jsonVars, called, fsVars>>
    /\ UNCHANGED procVars

NextBuild == BuildOopConfigAndDb

SpecBuild == InitBuild /\ [][NextBuild]_vars

----------------------------------------------------------------------------
(* The entrypoints: run_oop_with_options (oop.rs 405-586), run_server and  *)
(* run_migrate (run.rs 45-162), with their signal and heartbeat tasks      *)

LocalTracing == [endpoint |-> "local"]
MasterTracing == [endpoint |-> "master"]

\* RenderedModuleConfig::from_json(..).ok() on the variable's text
from_json(text) == IF text.valid THEN Some(text.rendered) ELSE None

\* lines 450-453: the rendered config read from the environment
read_rendered_config(env) == IF env.some THEN from_json(env.v) ELSE None

\* a slip that falls back to the local tracing section
tracing_layer_local_fallback(otel, rendered, local) ==
    IF otel
    THEN IF rendered.some /\ rendered.v.tracing.some
         THEN rendered.v.tracing ELSE local.tracing
    ELSE None

\* lines 464-471: the tracing configuration the OTEL layer is built from
tracing_layer_of(otel, rendered, local) ==
    IF otel THEN and_then(rendered, "tracing") ELSE None

\* a slip that gives the heartbeat loop a token of its own
heartbeat_cancel_fresh(root) == FALSE

\* line 527: cancel.child_token() is cancelled exactly when the root is
heartbeat_cancel(root) == root

Alive == main \notin {"idle", "exit_ok", "exit_err"}

NoDbMessage == "Cannot run migrations: no database configuration found"
OkMessage == "[OK] Database migrations completed successfully"
\* a line of text on stdout (println!)
Line(text) == [line |-> text]

\* the configurations an OoP module boots with
OopLocalConfigs ==
    { AppConfig(None, DefaultLogging, tr,
                [m |-> JObj([config |-> JObj([a |-> JStr("1")])])]) :
        tr \in {None, Some(LocalTracing)} } \cup
    { AppConfig(None, DefaultLogging, None, [m |-> EmptyObj]) }
OopEnvConfigs ==
    { None, Some([valid |-> FALSE]) } \cup
    { Some([valid |-> TRUE,
            rendered |-> Rendered(None, JObj([b |-> JStr("2")]), None, tr)]) :
        tr \in {None, Some(MasterTracing)} }
\* a module entry of the host's config: its runtime and database sections
HostEntry(runtime, database) ==
    JObj([k \in {x \in {"runtime", "database"} :
                   IF x = "runtime" THEN runtime.some ELSE database.some} |->
            IF k = "runtime" THEN runtime.v ELSE database.v])
ExecutionJson == JObj([executable_path |-> JStr("bin/module")])
RuntimeLocal == JObj([type |-> JStr("local")])
RuntimeOop == JObj([type |-> JStr("oop"), execution |-> ExecutionJson])
RuntimeOopNoExecution == JObj([type |-> JStr("oop")])
HostEntries ==
    { HostEntry(None, None),
      HostEntry(Some(RuntimeLocal), Some(JObj([file |-> JStr("module.db")]))),
      HostEntry(Some(RuntimeOop), None),
      HostEntry(Some(RuntimeOopNoExecution), None) }
HostModuleNames == {"m", "n"}
HostModules ==
    UNION { [names -> HostEntries] : names \in SUBSET HostModuleNames }
\* the configurations the host boots with
HostConfigs ==
    { AppConfig(db, DefaultLogging, None, mods) :
        db \in {None, Some(OneGlobal)}, mods \in HostModules }

\* Result<T>
Ok(v) == [ok |-> TRUE, v |-> v]
Err(msg) == [ok |-> FALSE, err |-> msg]

\* a slip that takes the modules' database sections for the configuration
resolve_db_options_by_modules(config, manager_ok) ==
    IF \A n \in DOMAIN config.modules : ~has_key(config.modules[n], "database")
    THEN Ok(DbNone)
    ELSE IF manager_ok THEN Ok([kind |-> "Manager"]) ELSE Err("database")

\* run.rs 164-177; manager_ok is the outcome of DbManager::from_figment
resolve_db_options(config, manager_ok) ==
    IF ~config.database.some
    THEN Ok(DbNone)
    ELSE IF manager_ok THEN Ok([kind |-> "Manager"]) ELSE Err("database")

\* get_module_runtime_config: the entry's `runtime` section, parsed
get_module_runtime_config(config, name) ==
    LET rt == value_get(config.modules[name], "runtime")
    IN  IF ~rt.some
        THEN None
        ELSE Some([mod_type |-> IF value_get(rt.v, "type") = Some(JStr("oop"))
                                THEN "Oop" ELSE "Local",
                   execution |-> value_get(rt.v, "execution")])

MissingExecution == "is type=oop but execution config is missing"
\* the places where code outside this file may fail while one module's
\* spawn config is built
SpawnFailures == {"none", "runtime_config", "render"}

\* a slip that skips an oop module without execution config
try_build_oop_module_config_skip(config, name, failure) ==
    LET runtime_cfg == get_module_runtime_config(config, name)
    IN  IF failure = "runtime_config" THEN Err("runtime config")
        ELSE IF ~runtime_cfg.some THEN Ok(None)
        ELSE IF runtime_cfg.v.mod_type # "Oop" THEN Ok(None)
        ELSE IF ~runtime_cfg.v.execution.some THEN Ok(None)
        ELSE IF failure = "render" THEN Err("render")
        ELSE Ok(Some([module_name |-> name,
                      binary |-> runtime_cfg.v.execution.v.m.executable_path]))

\* run.rs 208-247
try_build_oop_module_config(config, name, failure) ==
    LET runtime_cfg == get_module_runtime_config(config, name)
    IN  IF failure = "runtime_config" THEN Err("runtime config")
        ELSE IF ~runtime_cfg.some THEN Ok(None)
        ELSE IF runtime_cfg.v.mod_type # "Oop" THEN Ok(None)
        ELSE IF ~runtime_cfg.v.execution.some THEN Err(MissingExecution)
        ELSE IF failure = "render" THEN Err("render")
        ELSE Ok(Some([module_name |-> name,
                      binary |-> runtime_cfg.v.execution.v.m.executable_path]))

\* run.rs 183-205: the first module that fails ends the loop with its error
\* (the keys come in the map's order, which is any order); otherwise the
\* spawn configs of the oop modules, or None when there is none
build_oop_spawn_options(config, failures) ==
    LET built_of == [n \in DOMAIN config.modules |->
                       try_build_oop_module_config(config, n, failures[n])]
        failed == {n \in DOMAIN config.modules : ~built_of[n].ok}
        modules == {n \in DOMAIN config.modules : built_of[n].v.some}
    IN  IF failed # {}
        THEN Err({built_of[n].err : n \in failed})
        ELSE IF modules = {} THEN Ok(None) ELSE Ok(Some(modules))

\* a slip that hands the prepared spawn options to every runtime
run_options_oop_always(e, prepared) == prepared

\* the `oop` field of the RunOptions (run.rs 79, oop.rs 574) and the last
\* argument of HostRuntime::new (run.rs 147)
run_options_oop(e, prepared) == IF e = "server" THEN prepared ELSE None

\* the modules of the registry, in registry order
Registry == <<"m", "n">>
Last(seq) == seq[Len(seq)]
\* the phase that follows a phase of run()
NextPhase(phase) ==
    CASE phase = "Constructed" -> "PreInit"
      [] phase = "PreInit" -> "Migrate"
      [] phase = "Migrate" -> "Init"
      [] phase = "Init" -> "Start"
      [] phase = "Start" -> "Running"

Init ==
    /\ JsonIdle
    /\ module_name = "m"
    /\ rendered_config = None
    /\ serde_skip_none = TRUE
    /\ built = None
    /\ entry \in {"oop", "server", "migrate"}
    /\ IF entry = "oop"
       THEN /\ local_config \in OopLocalConfigs
            /\ env_config \in OopEnvConfigs
            /\ opts \in [print_config : BOOLEAN, otel : BOOLEAN]
       ELSE /\ local_config \in HostConfigs
            /\ env_config = None
            /\ opts = [print_config |-> FALSE, otel |-> FALSE]
    /\ main = "start"
    /\ cancel = FALSE
    /\ sig = "none"
    /\ pending = {}
    /\ delivered = 0
    /\ hb = "none"
    /\ heartbeats = 0
    /\ otel_layer = None
    /\ stdout = <<>>
    /\ error = ""
    /\ hb_failures = 0
    /\ rpcs = <<>>
    /\ phases = <<>>
    /\ oop_options = None
    /\ children = {}
    /\ migration = <<>>
    /\ called = <<>>
    /\ FsIdle

\* ---- the signal task (run.rs 18-37, oop.rs 415-431)

\* the OS delivers a shutdown signal to the process
OsSignal ==
    /\ Alive
    /\ sig # "none"
    /\ delivered < MaxSignals
    /\ \E kind \in {"SIGTERM", "SIGINT"} :
         pending' = IF sig \in {"waiting", "fallback"}
                    THEN pending \cup {kind} ELSE pending
    /\ delivered' = delivered + 1
    /\ UNCHANGED <<entry, main, opts, env_config, cancel, sig, hb, heartbeats,
                   otel_layer, stdout, error>>
    /\ UNCHANGED <<jsonVars, buildVars, called, fsVars>>
    /\ UNCHANGED runVars

\* a slip that cancels the token in the Ok arm only
SignalFallbackNoCancel ==
    /\ Alive
    /\ sig = "fallback"
    /\ \E failed \in BOOLEAN : failed \/ "SIGINT" \in pending
    /\ sig' = "done"
    /\ pending' = {}
    /\ UNCHANGED <<entry, main, opts, env_config, cancel, delivered, hb,
                   heartbeats, otel_layer, stdout, error>>
    /\ UNCHANGED <<jsonVars, buildVars, called, fsVars>>
    /\ UNCHANGED runVars

\* wait_for_shutdown returned Ok(()): a signal arrived; the token is cancelled
SignalWaiterOk ==
    /\ Alive
    /\ sig = "waiting"
    /\ pending # {}
    /\ sig' = "done"
    /\ pending' = {}
    /\ cancel' = TRUE
    /\ UNCHANGED <<entry, main, opts, env_config, delivered, hb, heartbeats,
                   otel_layer, stdout, error>>
    /\ UNCHANGED <<jsonVars, buildVars, called, fsVars>>
    /\ UNCHANGED runVars

\* a slip that cancels the token as soon as the waiter fails
SignalWaiterErrCancels ==
    /\ Alive
    /\ sig = "waiting"
    /\ sig' = "fallback"
    /\ pending' = {}
    /\ cancel' = TRUE
    /\ UNCHANGED <<entry, main, opts, env_config, delivered, hb,
                   heartbeats, otel_layer, stdout, error>>
    /\ UNCHANGED <<jsonVars, buildVars, called, fsVars>>
    /\ UNCHANGED runVars

\* wait_for_shutdown returned Err: fall back to ctrl_c()
SignalWaiterErr ==
    /\ Alive
    /\ sig = "waiting"
    /\ sig' = "fallback"
    /\ pending' = {}
    /\ UNCHANGED <<entry, main, opts, env_config, cancel, delivered, hb,
                   heartbeats, otel_layer, stdout, error>>
    /\ UNCHANGED <<jsonVars, buildVars, called, fsVars>>
    /\ UNCHANGED runVars

\* ctrl_c() completed (an interrupt, or its own error, which is discarded);
\* the token is cancelled
SignalFallbackDone ==
    /\ Alive
    /\ sig = "fallback"
    /\ \E failed \in BOOLEAN : failed \/ "SIGINT" \in pending
    /\ sig' = "done"
    /\ pending' = {}
    /\ cancel' = TRUE
    /\ UNCHANGED <<entry, main, opts, env_config, delivered, hb, heartbeats,
                   otel_layer, stdout, error>>
    /\ UNCHANGED <<jsonVars, buildVars, called, fsVars>>
    /\ UNCHANGED runVars

\* ---- run_oop_with_options

\* lines 405-431: the root token is created and the signal task spawned
OopStart ==
    /\ entry = "oop" /\ main = "start"
    /\ main' = "load"
    /\ sig' = "waiting"
    /\ UNCHANGED <<entry, opts, env_config, cancel, pending, delivered, hb,
                   heartbeats, otel_layer, stdout, error>>
    /\ UNCHANGED <<jsonVars, buildVars, called, fsVars>>
    /\ UNCHANGED runVars

\* lines 433-446: AppConfig::load_or_default
OopLoadConfig ==
    /\ entry = "oop" /\ main = "load"
    /\ \E ok \in BOOLEAN :
         /\ main' = IF ok THEN "build" ELSE "failed"
         /\ error' = IF ok THEN error ELSE "config"
    /\ UNCHANGED <<entry, opts, env_config, cancel, sig, pending, delivered,
                   hb, heartbeats, otel_layer, stdout>>
    /\ UNCHANGED <<jsonVars, buildVars, called, fsVars>>
    /\ UNCHANGED runVars

\* a slip that propagates the parse error of the variable with `?`
OopBuildConfigStrict ==
    /\ entry = "oop" /\ main = "build"
    /\ rendered_config' = read_rendered_config(env_config)
    /\ LET unparsed == env_config.some /\ ~rendered_config'.some
       IN /\ \E manager_ok \in BOOLEAN :
               built' = IF unparsed THEN built
                        ELSE Some(build_oop_config_and_db(local_config,
                                      module_name, rendered_config',
                                      serde_skip_none, manager_ok))
          /\ main' = IF ~unparsed /\ built'.v.ok THEN "telemetry" ELSE "failed"
          /\ error' = IF unparsed THEN "rendered"
                      ELSE IF built'.v.ok THEN error ELSE "database"
    /\ UNCHANGED <<local_config, module_name, serde_skip_none>>
    /\ UNCHANGED <<entry, opts, env_config, cancel, sig, pending, delivered,
                   hb, heartbeats, otel_layer, stdout>>
    /\ UNCHANGED <<jsonVars, called, fsVars>>
    /\ UNCHANGED runVars

\* lines 448-460: read MODKIT_MODULE_CONFIG and build the final config
OopBuildConfig ==
    /\ entry = "oop" /\ main = "build"
    /\ rendered_config' = read_rendered_config(env_config)
    /\ \E manager_ok \in BOOLEAN :
         built' = Some(build_oop_config_and_db(local_config, module_name,
                           rendered_config', serde_skip_none, manager_ok))
    /\ main' = IF built'.v.ok THEN "telemetry" ELSE "failed"
    /\ error' = IF built'.v.ok THEN error ELSE "database"
    /\ UNCHANGED <<local_config, module_name, serde_skip_none>>
    /\ UNCHANGED <<entry, opts, env_config, cancel, sig, pending, delivered,
                   hb, heartbeats, otel_layer, stdout>>
    /\ UNCHANGED <<jsonVars, called, fsVars>>
    /\ UNCHANGED runVars

\* lines 462-503: the OTEL layer and the logging are initialized
OopInitTelemetry ==
    /\ entry = "oop" /\ main = "telemetry"
    /\ otel_layer' = tracing_layer_of(opts.otel, rendered_config, local_config)
    /\ \E ok \in BOOLEAN :
         /\ ~ok => otel_layer'.some
         /\ main' = IF ~ok THEN "failed"
                    ELSE IF opts.print_config THEN "print" ELSE "connect"
         /\ error' = IF ok THEN error ELSE "tracing"
    /\ UNCHANGED <<entry, opts, env_config, cancel, sig, pending, delivered,
                   hb, heartbeats, stdout>>
    /\ UNCHANGED <<jsonVars, buildVars, called, fsVars>>
    /\ UNCHANGED runVars

\* lines 505-509 and 589-598: print_config(&config) and return; when to_yaml
\* fails the text goes to stderr and nothing is printed
OopPrintConfig ==
    /\ entry = "oop" /\ main = "print"
    /\ \E yaml_ok \in BOOLEAN :
         stdout' = IF yaml_ok THEN Append(stdout, local_config) ELSE stdout
    /\ main' = "returned"
    /\ UNCHANGED <<entry, opts, env_config, cancel, sig, pending, delivered,
                   hb, heartbeats, otel_layer, error>>
    /\ UNCHANGED <<jsonVars, buildVars, called, fsVars>>
    /\ UNCHANGED runVars

\* lines 511-519: DirectoryGrpcClient::connect
OopConnect ==
    /\ entry = "oop" /\ main = "connect"
    /\ \E ok \in BOOLEAN :
         /\ main' = IF ok THEN "heartbeat" ELSE "failed"
         /\ error' = IF ok THEN error ELSE "connect"
         /\ rpcs' = IF ok THEN Append(rpcs, "connect") ELSE rpcs
    /\ UNCHANGED <<entry, opts, env_config, cancel, sig, pending, delivered,
                   hb, heartbeats, otel_layer, stdout>>
    /\ UNCHANGED <<jsonVars, buildVars, called, fsVars>>
    /\ UNCHANGED <<hb_failures, phases, oop_options, children, migration>>

\* lines 521-577: the heartbeat task is spawned and the runtime entered
OopSpawnHeartbeat ==
    /\ entry = "oop" /\ main = "heartbeat"
    /\ hb' = "select"
    /\ main' = "run"
    /\ oop_options' = run_options_oop(entry, None)
    /\ UNCHANGED <<entry, opts, env_config, cancel, sig, pending, delivered,
                   heartbeats, otel_layer, stdout, error>>
    /\ UNCHANGED <<jsonVars, buildVars, called, fsVars>>
    /\ UNCHANGED <<hb_failures, rpcs, phases, children, migration>>

\* ---- the heartbeat task (oop.rs 529-556)

\* line 541: the sleep elapsed; the heartbeat RPC is sent
HbTick ==
    /\ Alive
    /\ hb = "select"
    /\ heartbeats < MaxHeartbeats
    /\ hb' = "rpc"
    /\ heartbeats' = heartbeats + 1
    /\ rpcs' = Append(rpcs, "heartbeat")
    /\ UNCHANGED <<entry, main, opts, env_config, cancel, sig, pending,
                   delivered, otel_layer, stdout, error>>
    /\ UNCHANGED <<jsonVars, buildVars, called, fsVars>>
    /\ UNCHANGED <<hb_failures, phases, oop_options, children, migration>>

\* a slip that leaves the loop when send_heartbeat fails
HbRpcReturnBreaks ==
    /\ Alive
    /\ hb = "rpc"
    /\ \E ok \in BOOLEAN :
         /\ hb' = IF ok THEN "select" ELSE "done"
         /\ hb_failures' = IF ok THEN 0 ELSE hb_failures + 1
    /\ UNCHANGED <<entry, main, opts, env_config, cancel, sig, pending,
                   delivered, heartbeats, otel_layer, stdout, error>>
    /\ UNCHANGED <<jsonVars, buildVars, called, fsVars>>
    /\ UNCHANGED <<rpcs, phases, oop_options, children, migration>>

\* lines 542-552: send_heartbeat returned Ok or Err; the loop goes on
HbRpcReturn ==
    /\ Alive
    /\ hb = "rpc"
    /\ \E ok \in BOOLEAN :
         /\ hb' = "select"
         /\ hb_failures' = IF ok THEN 0 ELSE hb_failures + 1
    /\ UNCHANGED <<entry, main, opts, env_config, cancel, sig, pending,
                   delivered, heartbeats, otel_layer, stdout, error>>
    /\ UNCHANGED <<jsonVars, buildVars, called, fsVars>>
    /\ UNCHANGED <<rpcs, phases, oop_options, children, migration>>

\* lines 537-540: heartbeat_cancel.cancelled() completed; the loop breaks
HbStop ==
    /\ Alive
    /\ hb = "select"
    /\ heartbeat_cancel(cancel)
    /\ hb' = "done"
    /\ UNCHANGED <<entry, main, opts, env_config, cancel, sig, pending,
                   delivered, heartbeats, otel_layer, stdout, error>>
    /\ UNCHANGED <<jsonVars, buildVars, called, fsVars>>
    /\ UNCHANGED runVars

\* ---- run_server

\* run.rs 45-59
ServerStart ==
    /\ entry = "server" /\ main = "start"
    /\ main' = "prepare"
    /\ sig' = "waiting"
    /\ UNCHANGED <<entry, opts, env_config, cancel, pending, delivered, hb,
                   heartbeats, otel_layer, stdout, error>>
    /\ UNCHANGED <<jsonVars, buildVars, called, fsVars>>
    /\ UNCHANGED runVars

\* a slip that invokes the backend while the spawn options are prepared
ServerPrepareSpawns ==
    /\ entry = "server" /\ main = "prepare"
    /\ \E manager_ok \in BOOLEAN,
          failures \in [DOMAIN local_config.modules -> SpawnFailures] :
         LET db_options == resolve_db_options(local_config, manager_ok)
             prepared == build_oop_spawn_options(local_config, failures)
         IN  IF ~db_options.ok
             THEN /\ main' = "failed" /\ error' = db_options.err
                  /\ UNCHANGED <<oop_options, children>>
             ELSE IF ~prepared.ok
             THEN /\ main' = "failed" /\ error' \in prepared.err
                  /\ UNCHANGED <<oop_options, children>>
             ELSE /\ main' = "run" /\ error' = error
                  /\ oop_options' = run_options_oop(entry, prepared.v)
                  /\ children' = IF prepared.v.some THEN prepared.v.v
                                 ELSE children
    /\ UNCHANGED <<entry, opts, env_config, cancel, sig, pending, delivered,
                   hb, heartbeats, otel_layer, stdout>>
    /\ UNCHANGED <<jsonVars, buildVars, called, fsVars>>
    /\ UNCHANGED <<hb_failures, rpcs, phases, migration>>

\* run.rs 61-80: resolve_db_options, build_oop_spawn_options, RunOptions
ServerPrepare ==
    /\ entry = "server" /\ main = "prepare"
    /\ \E manager_ok \in BOOLEAN,
          failures \in [DOMAIN local_config.modules -> SpawnFailures] :
         LET db_options == resolve_db_options(local_config, manager_ok)
             prepared == build_oop_spawn_options(local_config, failures)
         IN  IF ~db_options.ok
             THEN /\ main' = "failed" /\ error' = db_options.err
                  /\ UNCHANGED oop_options
             ELSE IF ~prepared.ok
             THEN /\ main' = "failed" /\ error' \in prepared.err
                  /\ UNCHANGED oop_options
             ELSE /\ main' = "run" /\ error' = error
                  /\ oop_options' = run_options_oop(entry, prepared.v)
    /\ UNCHANGED <<entry, opts, env_config, cancel, sig, pending, delivered,
                   hb, heartbeats, otel_layer, stdout>>
    /\ UNCHANGED <<jsonVars, buildVars, called, fsVars>>
    /\ UNCHANGED <<hb_failures, rpcs, phases, children, migration>>

\* ---- the runtime behind run(run_options) (run.rs 82, oop.rs 577): the
\* phase state machine Constructed, PreInit, Migrate, Init, Start, Running,
\* Stopping, Terminated

\* the registry is discovered and the runtime constructed
RuntimeConstruct ==
    /\ main = "run" /\ phases = <<>>
    /\ \E ok \in BOOLEAN :
         /\ phases' = IF ok THEN <<"Constructed">> ELSE phases
         /\ main' = IF ok THEN main ELSE "failed"
         /\ error' = IF ok THEN error ELSE "discovery"
    /\ UNCHANGED <<entry, opts, env_config, cancel, sig, pending, delivered,
                   hb, heartbeats, otel_layer, stdout>>
    /\ UNCHANGED <<jsonVars, buildVars, called, fsVars>>
    /\ UNCHANGED <<hb_failures, rpcs, oop_options, children, migration>>

\* a phase ran to its end: on failure the runtime goes to Stopping, on a
\* cancelled token it may skip to Stopping, otherwise the next phase is
\* entered; the OoP children are spawned once Start has completed
RuntimeAdvance ==
    /\ main = "run" /\ phases # <<>>
    /\ Last(phases) \in {"Constructed", "PreInit", "Migrate", "Init", "Start"}
    /\ \E ok \in BOOLEAN, observed \in BOOLEAN :
         /\ ~ok => Last(phases) # "Constructed"
         /\ observed => (ok /\ cancel)
         /\ phases' = Append(phases, IF ok /\ ~observed
                                     THEN NextPhase(Last(phases))
                                     ELSE "Stopping")
         /\ error' = IF ok THEN error ELSE "runtime"
         /\ children' = IF ok /\ ~observed /\ Last(phases) = "Start"
                           /\ oop_options.some
                        THEN oop_options.v ELSE children
    /\ UNCHANGED <<entry, main, opts, env_config, cancel, sig, pending,
                   delivered, hb, heartbeats, otel_layer, stdout>>
    /\ UNCHANGED <<jsonVars, buildVars, called, fsVars>>
    /\ UNCHANGED <<hb_failures, rpcs, oop_options, migration>>

\* Running ends when the token is cancelled, or on a failure
RuntimeStop ==
    /\ main = "run" /\ phases # <<>>
    /\ Last(phases) = "Running"
    /\ \E ok \in BOOLEAN :
         /\ ok => cancel
         /\ error' = IF ok THEN error ELSE "runtime"
    /\ phases' = Append(phases, "Stopping")
    /\ UNCHANGED <<entry, main, opts, env_config, cancel, sig, pending,
                   delivered, hb, heartbeats, otel_layer, stdout>>
    /\ UNCHANGED <<jsonVars, buildVars, called, fsVars>>
    /\ UNCHANGED <<hb_failures, rpcs, oop_options, children, migration>>

\* the stop hooks ran; run(run_options) returns, with Ok only when no phase
\* failed, that is only once the root token is cancelled
RuntimeReturns ==
    /\ main = "run" /\ phases # <<>>
    /\ Last(phases) = "Stopping"
    /\ \E ok \in BOOLEAN :
         /\ main' = IF ok /\ error = "" THEN "returned" ELSE "failed"
         /\ error' = IF ok THEN error ELSE "runtime"
    /\ phases' = Append(phases, "Terminated")
    /\ UNCHANGED <<entry, opts, env_config, cancel, sig, pending, delivered,
                   hb, heartbeats, otel_layer, stdout>>
    /\ UNCHANGED <<jsonVars, buildVars, called, fsVars>>
    /\ UNCHANGED <<hb_failures, rpcs, oop_options, children, migration>>

\* ---- run_migrate

\* run.rs 111-122
MigrateStart ==
    /\ entry = "migrate" /\ main = "start"
    /\ main' = "resolve"
    /\ sig' = "waiting"
    /\ UNCHANGED <<entry, opts, env_config, cancel, pending, delivered, hb,
                   heartbeats, otel_layer, stdout, error>>
    /\ UNCHANGED <<jsonVars, buildVars, called, fsVars>>
    /\ UNCHANGED runVars

\* a slip that leaves out the test on DbOptions::None
MigrateResolveDbNoTest ==
    /\ entry = "migrate" /\ main = "resolve"
    /\ \E manager_ok \in BOOLEAN :
         LET db_options == resolve_db_options(local_config, manager_ok)
         IN  IF ~db_options.ok
             THEN main' = "failed" /\ error' = db_options.err
             ELSE main' = "discover" /\ error' = error
    /\ UNCHANGED <<entry, opts, env_config, cancel, sig, pending, delivered,
                   hb, heartbeats, otel_layer, stdout>>
    /\ UNCHANGED <<jsonVars, buildVars, called, fsVars>>
    /\ UNCHANGED runVars

\* run.rs 124-130, 164-177: resolve_db_options, then the None test
MigrateResolveDb ==
    /\ entry = "migrate" /\ main = "resolve"
    /\ \E manager_ok \in BOOLEAN :
         LET db_options == resolve_db_options(local_config, manager_ok)
         IN  IF ~db_options.ok
             THEN main' = "failed" /\ error' = db_options.err
             ELSE IF db_options.v = DbNone
             THEN main' = "failed" /\ error' = NoDbMessage
             ELSE main' = "discover" /\ error' = error
    /\ UNCHANGED <<entry, opts, env_config, cancel, sig, pending, delivered,
                   hb, heartbeats, otel_layer, stdout>>
    /\ UNCHANGED <<jsonVars, buildVars, called, fsVars>>
    /\ UNCHANGED runVars

\* a slip that runs the whole lifecycle instead of the migration phases
MigrateDiscoverFullRun ==
    /\ entry = "migrate" /\ main = "discover"
    /\ \E ok \in BOOLEAN :
         /\ main' = IF ok THEN "run" ELSE "failed"
         /\ error' = IF ok THEN error ELSE "discovery"
         /\ phases' = IF ok THEN <<"Constructed">> ELSE phases
    /\ oop_options' = run_options_oop(entry, None)
    /\ UNCHANGED <<entry, opts, env_config, cancel, sig, pending, delivered,
                   hb, heartbeats, otel_layer, stdout>>
    /\ UNCHANGED <<jsonVars, buildVars, called, fsVars>>
    /\ UNCHANGED <<hb_failures, rpcs, children, migration>>

\* run.rs 132-151: ModuleRegistry::discover_and_build, HostRuntime::new,
\* and the call of run_migration_phases
MigrateDiscover ==
    /\ entry = "migrate" /\ main = "discover"
    /\ \E ok \in BOOLEAN :
         /\ main' = IF ok THEN "phases" ELSE "failed"
         /\ error' = IF ok THEN error ELSE "discovery"
         /\ phases' = IF ok THEN <<"Constructed">> ELSE phases
    /\ \E failures \in [DOMAIN local_config.modules -> {"none"}] :
         LET prepared == build_oop_spawn_options(local_config, failures)
         IN  oop_options' = run_options_oop(entry,
                               IF prepared.ok THEN prepared.v ELSE None)
    /\ UNCHANGED <<entry, opts, env_config, cancel, sig, pending, delivered,
                   hb, heartbeats, otel_layer, stdout>>
    /\ UNCHANGED <<jsonVars, buildVars, called, fsVars>>
    /\ UNCHANGED <<hb_failures, rpcs, children, migration>>

\* ---- run_migration_phases (called on run.rs 151): PreInit, then Migrate

\* the outcomes of the migrations run: those up to the first failure
RECURSIVE migrations_run(_)
migrations_run(outcomes) ==
    IF outcomes = <<>> THEN <<>>
    ELSE IF ~Head(outcomes) THEN <<FALSE>>
    ELSE <<TRUE>> \o migrations_run(Tail(outcomes))

MigrationPreInit ==
    /\ main = "phases" /\ Last(phases) = "Constructed"
    /\ phases' = Append(phases, "PreInit")
    /\ \E ok \in BOOLEAN :
         /\ main' = IF ok THEN main ELSE "result"
         /\ error' = IF ok THEN error ELSE "pre-init"
    /\ UNCHANGED <<entry, opts, env_config, cancel, sig, pending, delivered,
                   hb, heartbeats, otel_layer, stdout>>
    /\ UNCHANGED <<jsonVars, buildVars, called, fsVars>>
    /\ UNCHANGED <<hb_failures, rpcs, oop_options, children, migration>>

MigrationMigrate ==
    /\ main = "phases" /\ Last(phases) = "PreInit"
    /\ phases' = Append(phases, "Migrate")
    /\ \E outcomes \in [1..Len(Registry) -> BOOLEAN] :
         /\ migration' = migrations_run(outcomes)
         /\ error' = IF \A i \in 1..Len(Registry) : outcomes[i]
                     THEN error ELSE "migration"
    /\ main' = "result"
    /\ UNCHANGED <<entry, opts, env_config, cancel, sig, pending, delivered,
                   hb, heartbeats, otel_layer, stdout>>
    /\ UNCHANGED <<jsonVars, buildVars, called, fsVars>>
    /\ UNCHANGED <<hb_failures, rpcs, oop_options, children>>

\* a slip that prints the OK line before `result?`
MigratePhasesPrintFirst ==
    /\ entry = "migrate" /\ main = "result"
    /\ main' = IF error = "" THEN "returned" ELSE "failed"
    /\ stdout' = Append(stdout, Line(OkMessage))
    /\ UNCHANGED <<entry, opts, env_config, cancel, sig, pending, delivered,
                   hb, heartbeats, otel_layer, error>>
    /\ UNCHANGED <<jsonVars, buildVars, called, fsVars>>
    /\ UNCHANGED runVars

\* run.rs 151-161: `result?`, then the OK line
MigratePhases ==
    /\ entry = "migrate" /\ main = "result"
    /\ main' = IF error = "" THEN "returned" ELSE "failed"
    /\ stdout' = IF error = "" THEN Append(stdout, Line(OkMessage)) ELSE stdout
    /\ UNCHANGED <<entry, opts, env_config, cancel, sig, pending, delivered,
                   hb, heartbeats, otel_layer, error>>
    /\ UNCHANGED <<jsonVars, buildVars, called, fsVars>>
    /\ UNCHANGED runVars

\* ---- the entrypoint returned to #[tokio::main]: the process exits and the
\* runtime drops the tasks still pending (oop.rs 29-42, main.rs 65-148)
ProcessExit ==
    /\ main \in {"returned", "failed"}
    /\ main' = IF main = "returned" THEN "exit_ok" ELSE "exit_err"
    /\ sig' = IF sig \in {"waiting", "fallback"} THEN "aborted" ELSE sig
    /\ hb' = IF hb \in {"select", "rpc"} THEN "aborted" ELSE hb
    /\ UNCHANGED <<entry, opts, env_config, cancel, pending, delivered,
                   heartbeats, otel_layer, stdout, error>>
    /\ UNCHANGED <<jsonVars, buildVars, called, fsVars>>
    /\ UNCHANGED runVars

Next ==
    \/ OsSignal \/ SignalWaiterOk \/ SignalWaiterErr \/ SignalFallbackDone
    \/ OopStart \/ OopLoadConfig \/ OopBuildConfig \/ OopInitTelemetry
    \/ OopPrintConfig \/ OopConnect \/ OopSpawnHeartbeat
    \/ HbTick \/ HbRpcReturn \/ HbStop
    \/ ServerStart \/ ServerPrepare
    \/ RuntimeConstruct \/ RuntimeAdvance \/ RuntimeStop \/ RuntimeReturns
    \/ MigrateStart \/ MigrateResolveDb \/ MigrateDiscover
    \/ MigrationPreInit \/ MigrationMigrate \/ MigratePhases
    \/ ProcessExit

Spec == Init /\ [][Next]_vars

\* the heartbeat task is scheduled: select! polls its branches fairly and a
\* heartbeat RPC in flight returns
SpecLive == Spec /\ SF_vars(HbStop) /\ WF_vars(HbRpcReturn)

----------------------------------------------------------------------------
(* Claims about merge_json_objects                                         *)

\* the merge law of two objects, stated key by key at every depth
RECURSIVE MergeLaw(_, _, _)
MergeLaw(t, s, r) ==
    /\ is_object(r)
    /\ DOMAIN r.m = DOMAIN t.m \cup DOMAIN s.m
    /\ \A k \in DOMAIN r.m :
         IF k \notin DOMAIN s.m THEN r.m[k] = t.m[k]
         ELSE IF k \notin DOMAIN t.m THEN r.m[k] = s.m[k]
         ELSE IF is_object(t.m[k]) /\ is_object(s.m[k])
              THEN MergeLaw(t.m[k], s.m[k], r.m[k])
              ELSE r.m[k] = s.m[k]

\* C5: merging two JSON objects keeps every key only target has, adds every
\* key only source has, merges recursively a key whose two values are
\* objects and takes the source value for any other common key, at every
\* depth; an empty source leaves target unchanged and an empty target
\* becomes source.
C5_MergeJsonObjects ==
    (merged /\ is_object(target0) /\ is_object(source)) =>
        /\ MergeLaw(target0, source, target)
        /\ (source = EmptyObj => target = target0)
        /\ (target0 = EmptyObj => target = source)

\* a merge that recursed into a common object holding a key of each side only
C5_Witness ==
    /\ merged
    /\ \E k \in Keys :
         /\ has_key(target0, k) /\ has_key(source, k)
         /\ is_object(target0.m[k]) /\ is_object(source.m[k])
         /\ DOMAIN target0.m[k].m \ DOMAIN source.m[k].m # {}
         /\ DOMAIN source.m[k].m \ DOMAIN target0.m[k].m # {}

----------------------------------------------------------------------------
(* Claims about build_oop_config_and_db                                    *)

BuiltOk == built.some /\ built.v.ok

\* the local entry modules.<name> holds a `config` key
LocalHasConfigKey ==
    /\ module_name \in DOMAIN local_config.modules
    /\ has_key(local_config.modules[module_name], "config")

LocalConfigSection == local_config.modules[module_name].m["config"]

\* the final entry modules.<name> holds a `config` key
FinalHasConfigKey ==
    /\ module_name \in DOMAIN built.v.final_config.modules
    /\ has_key(built.v.final_config.modules[module_name], "config")

FinalConfigSection == built.v.final_config.modules[module_name].m["config"]

\* C1: with a rendered config present, a non-null local modules.<name>.config
\* is the final modules.<name>.config exactly, and no key that only the
\* rendered config holds appears in it (whole-subtree replacement).
C1_LocalConfigWins ==
    (/\ BuiltOk
     /\ rendered_config.some
     /\ LocalHasConfigKey
     /\ ~is_null(LocalConfigSection)) =>
        /\ FinalHasConfigKey
        /\ FinalConfigSection = LocalConfigSection
        /\ \A k \in Keys :
             (/\ has_key(rendered_config.v.config, k)
              /\ ~has_key(LocalConfigSection, k)) =>
                 ~has_key(FinalConfigSection, k)

\* a local object section met a rendered object holding a key it lacks
C1_Witness ==
    /\ BuiltOk
    /\ rendered_config.some
    /\ LocalHasConfigKey
    /\ is_object(LocalConfigSection)
    /\ LocalConfigSection # EmptyObj
    /\ \E k \in Keys :
         /\ has_key(rendered_config.v.config, k)
         /\ ~has_key(LocalConfigSection, k)

\* C2: with a rendered config present, when the local config has no entry
\* for the module or the entry's `config` is JSON null, the final
\* modules.<name>.config is the rendered `config`.
C2_RenderedConfigUsed ==
    (/\ BuiltOk
     /\ rendered_config.some
     /\ \/ module_name \notin DOMAIN local_config.modules
        \/ LocalHasConfigKey /\ is_null(LocalConfigSection)) =>
        /\ FinalHasConfigKey
        /\ FinalConfigSection = rendered_config.v.config

\* a local `config: null` was replaced by a rendered object
C2_Witness ==
    /\ BuiltOk
    /\ rendered_config.some
    /\ LocalHasConfigKey
    /\ is_null(LocalConfigSection)
    /\ is_object(rendered_config.v.config)
    /\ rendered_config.v.config # EmptyObj

MasterLogging == unwrap_or_default(and_then(rendered_config, "logging"))

\* C3: the merged logging map has exactly the keys of master and local; a
\* key of local holds local's whole section, a key only master has holds
\* master's section.
C3_LoggingUnion ==
    BuiltOk =>
        /\ DOMAIN built.v.merged_logging =
               DOMAIN MasterLogging \cup DOMAIN local_config.logging
        /\ \A k \in DOMAIN local_config.logging :
               built.v.merged_logging[k] = local_config.logging[k]
        /\ \A k \in DOMAIN MasterLogging \ DOMAIN local_config.logging :
               built.v.merged_logging[k] = MasterLogging[k]

\* a merge with a key on both sides (sections differing), a key only master
\* has and a key only local has
C3_Witness ==
    /\ BuiltOk
    /\ \E k \in DOMAIN MasterLogging \cap DOMAIN local_config.logging :
           MasterLogging[k] # local_config.logging[k]
    /\ DOMAIN MasterLogging \ DOMAIN local_config.logging # {}
    /\ DOMAIN local_config.logging \ DOMAIN MasterLogging # {}

\* the rendered config supplies the module's database spec
RenderedHasModuleDb ==
    /\ rendered_config.some
    /\ rendered_config.v.database.some
    /\ rendered_config.v.database.v.module.some

RenderedModuleDbJson ==
    ser_db_conn(rendered_config.v.database.v.module.v, serde_skip_none)

\* the local modules.<name>.database sets pool.max_conns and nothing else
LocalSetsOnlyMaxConns ==
    /\ module_name \in DOMAIN local_config.modules
    /\ has_key(local_config.modules[module_name], "database")
    /\ LET d == local_config.modules[module_name].m["database"]
       IN /\ is_object(d) /\ DOMAIN d.m = {"pool"}
          /\ is_object(d.m["pool"]) /\ DOMAIN d.m["pool"].m = {"max_conns"}
          /\ ~is_null(d.m["pool"].m["max_conns"])

LocalMaxConnsValue ==
    local_config.modules[module_name].m["database"].m["pool"].m["max_conns"]

\* a field of an object, null when the value has no such field
field_or_null(val, f) == IF has_key(val, f) THEN val.m[f] ELSE JNull

MergedModuleDb ==
    built.v.db_options.merged_config.m["modules"].m[module_name].m["database"]

\* C4: when the rendered config supplies the module's database and the local
\* module database sets only pool.max_conns, the merged module database is
\* the rendered one with pool.max_conns replaced by the local value and
\* every other field unchanged.
C4_OnlyMaxConnsOverridden ==
    (BuiltOk /\ RenderedHasModuleDb /\ LocalSetsOnlyMaxConns) =>
        /\ built.v.db_options.kind = "Manager"
        /\ is_object(MergedModuleDb)
        /\ \A f \in DbConnFields \ {"pool"} :
               value_get(MergedModuleDb, f) = value_get(RenderedModuleDbJson, f)
        /\ has_key(MergedModuleDb, "pool")
        /\ field_or_null(MergedModuleDb.m["pool"], "max_conns")
               = LocalMaxConnsValue
        /\ \A g \in PoolFields \ {"max_conns"} :
               field_or_null(MergedModuleDb.m["pool"], g) =
               field_or_null(field_or_null(RenderedModuleDbJson, "pool"), g)

\* master gives file, params and a pool with another max_conns and a timeout
C4_Witness ==
    /\ BuiltOk /\ RenderedHasModuleDb /\ LocalSetsOnlyMaxConns
    /\ LET rm == rendered_config.v.database.v.module.v
       IN /\ rm["file"].some /\ rm["params"].some /\ rm["pool"].some
          /\ rm["pool"].v["max_conns"].some
          /\ rm["pool"].v["max_conns"].v # LocalMaxConnsValue
          /\ rm["pool"].v["acquire_timeout"].some

\* the merged database configuration the local config yields alone
LocalOnlyDbConfig ==
    LET c1 == IF local_config.database.some
              THEN [database |->
                      ser_global_db(local_config.database.v, serde_skip_none)]
              ELSE EmptyMap
    IN IF /\ module_name \in DOMAIN local_config.modules
          /\ has_key(local_config.modules[module_name], "database")
       THEN insert(c1, "modules",
              JObj(insert(EmptyMap, module_name,
                JObj([database |->
                        local_config.modules[module_name].m["database"]]))))
       ELSE c1

\* C6: standalone mode (no rendered config): the final config is the local
\* config unchanged, the merged logging is the local logging map, and the
\* database options are built from the local config alone (None when the
\* local config has no database).
C6_Standalone ==
    (BuiltOk /\ ~rendered_config.some) =>
        /\ built.v.final_config = local_config
        /\ built.v.merged_logging = local_config.logging
        /\ built.v.db_options =
               IF LocalOnlyDbConfig = EmptyMap THEN DbNone
               ELSE DbManager(LocalOnlyDbConfig)

\* a standalone build with a local config section and no database
C6_Witness ==
    /\ BuiltOk /\ ~rendered_config.some
    /\ LocalHasConfigKey /\ is_object(LocalConfigSection)
    /\ LocalConfigSection # EmptyObj
    /\ built.v.db_options = DbNone

\* neither the rendered nor the local config has a database
NeitherHasDatabase ==
    /\ ~(/\ rendered_config.some
         /\ rendered_config.v.database.some
         /\ \/ rendered_config.v.database.v.global.some
            \/ rendered_config.v.database.v.module.some)
    /\ ~local_config.database.some
    /\ ~(/\ module_name \in DOMAIN local_config.modules
         /\ has_key(local_config.modules[module_name], "database"))

\* C7: the database options are None exactly when neither side has a
\* database; in every other case a DbManager is built or an error returned.
C7_DbNoneIffNoDatabase ==
    built.some =>
        /\ (built.v.ok /\ built.v.db_options.kind = "None") <=> NeitherHasDatabase
        /\ ~NeitherHasDatabase =>
               (~built.v.ok \/ built.v.db_options.kind = "Manager")

\* None although the master sent an (empty) database section and the local
\* module entry exists
C7_Witness ==
    /\ BuiltOk /\ built.v.db_options.kind = "None"
    /\ rendered_config.some /\ rendered_config.v.database.some
    /\ module_name \in DOMAIN local_config.modules

----------------------------------------------------------------------------
(* Claims about the tracing configuration used at OoP boot                 *)

\* run_oop_with_options is past the initialization of the OTEL layer
TelemetryInitialized ==
    /\ entry = "oop"
    /\ \/ main \in {"print", "connect", "heartbeat", "run", "returned",
                    "exit_ok"}
       \/ /\ main \in {"failed", "exit_err"}
          /\ error \in {"tracing", "connect", "runtime"}

RenderedHasTracing == rendered_config.some /\ rendered_config.v.tracing.some

\* C8 (as amended): with the otel feature compiled in, the tracing section of
\* the rendered config is the one used when the rendered config carries one;
\* in every other case (no rendered config, a rendered config without a
\* tracing section, the feature off) no tracing layer is initialized, and the
\* local config's tracing section is never used.
C8_RenderedTracingOnly ==
    TelemetryInitialized =>
        /\ otel_layer = IF opts.otel /\ RenderedHasTracing
                        THEN rendered_config.v.tracing ELSE None
        /\ otel_layer # Some(LocalTracing)

\* the rendered config has no tracing section, the local config has one, and
\* the OTEL layer was initialized from nothing
C8_Witness ==
    /\ TelemetryInitialized
    /\ opts.otel
    /\ ~RenderedHasTracing
    /\ local_config.tracing = Some(LocalTracing)
    /\ otel_layer = None

\* C8 as first stated: rendered tracing when present, otherwise the local one
C8_LocalTracingFallback ==
    TelemetryInitialized =>
        otel_layer = IF RenderedHasTracing
                     THEN rendered_config.v.tracing ELSE local_config.tracing

----------------------------------------------------------------------------
(* Claims about the signal task and the root token                         *)

\* C9: in run_server, run_migrate and run_oop_with_options the signal task
\* ends only by cancelling the one root token (so the first shutdown signal
\* the waiter returns for cancels it); nothing else cancels the root; a
\* cancelled root is never un-cancelled; and a signal delivered after the
\* task has finished changes nothing but the count of signals.
C9_SignalCancelsRoot ==
    /\ [](sig = "done" => cancel)
    /\ [][ /\ cancel => cancel'
           /\ (~cancel /\ cancel') =>
                 /\ sig \in {"waiting", "fallback"}
                 /\ sig' = "done"
                 /\ sig = "waiting" => pending # {}
           /\ (sig = "done" /\ delivered' # delivered) =>
                 UNCHANGED <<cancel, sig, pending, main, hb, heartbeats,
                             stdout, error>>
         ]_vars

\* a migration run whose root was cancelled by the first of two signals
C9_Witness ==
    /\ entry = "migrate"
    /\ cancel
    /\ sig = "done"
    /\ delivered >= 2

----------------------------------------------------------------------------
(* Claims about the heartbeat task                                         *)

C11_HeartbeatFailureContinues ==
    /\ []((hb = "select" /\ hb_failures >= 1 /\ Alive
              /\ heartbeats < MaxHeartbeats) => ENABLED HbTick)
    /\ [][ /\ (hb = "rpc" /\ hb' # "rpc") =>
                 \/ hb' = "select" /\ main' = main /\ error' = error
                 \/ hb' = "aborted" /\ main # main'
           /\ (hb # "done" /\ hb' = "done") => (hb = "select" /\ cancel)
         ]_vars

\* a heartbeat is being sent after two consecutive failures
C11_Witness ==
    /\ hb = "rpc"
    /\ hb_failures >= 2
    /\ Alive

----------------------------------------------------------------------------
(* Claims about the directory service calls of an OoP module               *)

Called(rpc) == \E i \in 1..Len(rpcs) : rpcs[i] = rpc

\* C12: on shutdown of an OoP module (root token cancelled, heartbeat loop
\* exited, runtime returned), a deregister call has been made on the
\* directory service by the time run_oop_with_options returns.
C12_DeregisterOnShutdown ==
    (/\ entry = "oop"
     /\ main \in {"returned", "exit_ok"}
     /\ phases # <<>>
     /\ cancel
     /\ hb = "done")
        => Called("deregister")

\* C13: every heartbeat sent by an OoP module comes after a register call,
\* itself after the connection to the directory service.
C13_RegisterBeforeHeartbeat ==
    \A i \in 1..Len(rpcs) :
        rpcs[i] = "heartbeat" =>
            \E j \in 1..(i - 1) :
                /\ rpcs[j] = "register"
                /\ \E k \in 1..(j - 1) : rpcs[k] = "connect"

----------------------------------------------------------------------------
(* Claims about the spawning of OoP children                               *)

\* the Start phase was entered and left for the phase after it
StartCompleted ==
    \E i \in 1..(Len(phases) - 1) :
        phases[i] = "Start" /\ phases[i + 1] = "Running"

\* C14: in run_server no OoP child is spawned before the Start phase has
\* completed: nothing is spawned while the spawn options are prepared, before
\* the runtime runs, and once children exist Start has been completed.
C14_SpawnAfterStart ==
    /\ children # {} => (StartCompleted /\ main \notin {"start", "prepare"})
    /\ children # {} => (oop_options.some /\ children = oop_options.v)

\* run_server spawned the oop module it had prepared, with Start completed
C14_Witness ==
    /\ entry = "server"
    /\ children = {"m"}
    /\ Last(phases) = "Running"

\* C15: run_oop_with_options and run_migrate hand the runtime no OoP spawn
\* options, and in no execution of either is a child module spawned.
C15_OnlyServerSpawns ==
    entry \in {"oop", "migrate"} => (oop_options = None /\ children = {})

\* a migration run, past the construction of its runtime, on a config that
\* has an oop module ready to be spawned
C15_Witness ==
    /\ entry = "migrate"
    /\ phases # <<>>
    /\ "m" \in DOMAIN local_config.modules
    /\ value_get(local_config.modules["m"], "runtime") = Some(RuntimeOop)
    /\ oop_options = None

----------------------------------------------------------------------------
(* Claims about run_migrate                                                *)

Printed(text) == \E i \in 1..Len(stdout) : stdout[i] = Line(text)

\* C16: run_migrate on a config with no `database` section returns the error
\* "Cannot run migrations: no database configuration found"; no module is
\* discovered, no phase is run and the OK line is not printed.
C16_NoDatabaseError ==
    (/\ entry = "migrate"
     /\ ~local_config.database.some
     /\ main \notin {"start", "resolve"})
        => /\ main \in {"failed", "exit_err"}
           /\ error = NoDbMessage
           /\ phases = <<>>
           /\ migration = <<>>
           /\ ~Printed(OkMessage)

\* run_migrate exited with that error
C16_Witness ==
    /\ entry = "migrate"
    /\ ~local_config.database.some
    /\ main = "exit_err"
    /\ error = NoDbMessage

\* C17: the OK line is printed only after PreInit and every module's
\* migration succeeded; when pre-init or a migration fails, run_migrate
\* returns the error and the line is not printed.
C17_OkOnlyAfterSuccess ==
    /\ Printed(OkMessage) =>
          /\ entry = "migrate"
          /\ phases = <<"Constructed", "PreInit", "Migrate">>
          /\ migration = [i \in 1..Len(Registry) |-> TRUE]
          /\ error = ""
          /\ main \in {"returned", "exit_ok"}
    /\ (entry = "migrate" /\ error \in {"pre-init", "migration"}) =>
          /\ ~Printed(OkMessage)
          /\ main \in {"result", "failed", "exit_err"}

\* the second module's migration failed and run_migrate returned the error
C17_Witness ==
    /\ entry = "migrate"
    /\ migration = <<TRUE, FALSE>>
    /\ main = "failed"
    /\ error = "migration"
    /\ stdout = <<>>

\* C18: run_migrate executes only PreInit followed by Migrate and then
\* returns: it never enters Init, Start, Running or Stopping.
C18_OnlyMigrationPhases ==
    entry = "migrate" =>
        \E n \in 0..3 : phases = SubSeq(<<"Constructed", "PreInit", "Migrate">>, 1, n)

\* a migration run that went through both phases and exited
C18_Witness ==
    /\ entry = "migrate"
    /\ main = "exit_ok"
    /\ phases = <<"Constructed", "PreInit", "Migrate">>

NoModuleHasDatabase ==
    \A n \in DOMAIN local_config.modules :
        ~has_key(local_config.modules[n], "database")

\* C19 (as amended): run_migrate requires the config's global `database`
\* section: it returns the "no database configuration found" error exactly
\* when that section is absent, whether or not a module has a database, and
\* reports success only with that section present.
C19_RequiresGlobalDatabase ==
    (entry = "migrate" /\ main \notin {"start", "resolve"}) =>
        /\ (error = NoDbMessage) <=> ~local_config.database.some
        /\ Printed(OkMessage) => local_config.database.some

\* no module has a database, and the run reported success
C19_Witness ==
    /\ entry = "migrate"
    /\ NoModuleHasDatabase
    /\ main = "exit_ok"
    /\ Printed(OkMessage)

\* C19 as first stated: with no database-bearing module, run_migrate returns
\* an error and does not report success
C19_RequiresModuleDatabase ==
    (entry = "migrate" /\ NoModuleHasDatabase) =>
        /\ ~Printed(OkMessage)
        /\ main \notin {"returned", "exit_ok"}

----------------------------------------------------------------------------
(* Claims about the spawn options of run_server                            *)

OopWithoutExecution(n) ==
    /\ n \in DOMAIN local_config.modules
    /\ value_get(local_config.modules[n], "runtime") =
          Some(RuntimeOopNoExecution)

\* C20: when a configured module has runtime type oop and no execution
\* config, run_server returns an error before the runtime is started: no
\* phase is run and no child is spawned, even for a well-configured module.
C20_MissingExecutionFails ==
    (/\ entry = "server"
     /\ \E n \in HostModuleNames : OopWithoutExecution(n)
     /\ main \notin {"start", "prepare"})
        => /\ main \in {"failed", "exit_err"}
           /\ phases = <<>>
           /\ children = {}
           /\ oop_options = None

\* module m lacks its execution config, module n is well configured, and
\* run_server exited with the error about m
C20_Witness ==
    /\ entry = "server"
    /\ OopWithoutExecution("m")
    /\ "n" \in DOMAIN local_config.modules
    /\ value_get(local_config.modules["n"], "runtime") = Some(RuntimeOop)
    /\ main = "exit_err"
    /\ error = MissingExecution

----------------------------------------------------------------------------
(* Claims about the fallback of the signal task                            *)

\* C21: when the primary shutdown waiter returns an error, the signal task
\* goes on to wait for a plain interrupt: that step leaves the root token as
\* it was, the root stays live for as long as the task waits there, and from
\* there the root is cancelled only in the step that ends the interrupt wait.
C21_FallbackThenCancel ==
    /\ [](sig = "fallback" => ~cancel)
    /\ [][ /\ (sig = "waiting" /\ sig' = "fallback") => (cancel' = cancel)
           /\ (sig = "fallback" /\ cancel') => (sig' = "done")
           /\ (sig = "fallback" /\ sig' \notin {"fallback", "aborted"}) =>
                 (sig' = "done" /\ cancel')
         ]_vars

\* the waiter failed although a signal had been delivered: the task waits for
\* an interrupt and the root is still live
C21_Witness ==
    /\ sig = "fallback"
    /\ delivered >= 1
    /\ ~cancel
    /\ main = "run"

----------------------------------------------------------------------------
(* Claims about build_oop_config_and_db on a local entry without `config`  *)

\* C22: with a rendered config present, whenever the local config has an
\* entry modules.<name> without a `config` key, whatever JSON value the entry
\* is, the final modules.<name>.config is the rendered `config`.
C22_NoConfigKeyUsesRendered ==
    (/\ BuiltOk
     /\ rendered_config.some
     /\ module_name \in DOMAIN local_config.modules
     /\ ~LocalHasConfigKey) =>
        /\ FinalHasConfigKey
        /\ FinalConfigSection = rendered_config.v.config

----------------------------------------------------------------------------
(* Claims about merge_json_objects on values of different shapes           *)

\* C27: for a key of both sides where exactly one of the two values is an
\* object the result holds the source value in full, and when the top-level
\* target or the top-level source is not an object, target becomes source.
C27_MismatchedShapes ==
    merged =>
        /\ (~is_object(target0) \/ ~is_object(source)) => target = source
        /\ (is_object(target0) /\ is_object(source)) =>
              \A k \in DOMAIN target0.m \cap DOMAIN source.m :
                  (is_object(target0.m[k]) # is_object(source.m[k])) =>
                      target.m[k] = source.m[k]

\* a source scalar replaced a target object under a common key
C27_Witness ==
    /\ merged
    /\ is_object(target0) /\ is_object(source)
    /\ \E k \in DOMAIN target0.m \cap DOMAIN source.m :
         /\ is_object(target0.m[k]) /\ target0.m[k] # EmptyObj
         /\ ~is_object(source.m[k])
         /\ target.m[k] = source.m[k]

----------------------------------------------------------------------------
(* Claims about the frame of build_oop_config_and_db                       *)

\* a module entry with its `config` key taken away
WithoutConfig(val) ==
    IF is_object(val)
    THEN JObj([k \in DOMAIN val.m \ {"config"} |-> val.m[k]])
    ELSE val

\* C30: build_oop_config_and_db leaves the local config as it was, and the
\* final config differs from it at most in modules[<name>].config: server,
\* database, logging, tracing, modules_dir and every other module entry are
\* the local ones, and so is every other key of the module's entry.
C30_Frame ==
    /\ [][local_config' = local_config]_vars
    /\ [](BuiltOk =>
          LET final == built.v.final_config
          IN  /\ final.server = local_config.server
              /\ final.database = local_config.database
              /\ final.logging = local_config.logging
              /\ final.tracing = local_config.tracing
              /\ final.modules_dir = local_config.modules_dir
              /\ DOMAIN final.modules \ {module_name} =
                    DOMAIN local_config.modules \ {module_name}
              /\ \A n \in DOMAIN final.modules \ {module_name} :
                    final.modules[n] = local_config.modules[n]
              /\ module_name \in DOMAIN local_config.modules =>
                    /\ module_name \in DOMAIN final.modules
                    /\ WithoutConfig(final.modules[module_name]) =
                          WithoutConfig(local_config.modules[module_name])
              /\ (module_name \notin DOMAIN local_config.modules
                     /\ module_name \in DOMAIN final.modules) =>
                    WithoutConfig(final.modules[module_name]) = EmptyObj)

\* the merged logging differs from the local one and the final config still
\* holds the local logging
C30_Witness ==
    /\ BuiltOk
    /\ rendered_config.some
    /\ built.v.merged_logging # local_config.logging
    /\ built.v.final_config.logging = local_config.logging

----------------------------------------------------------------------------
(* Logging when the local config holds only the built-in default logging  *)

\* the rendered config carries a logging map
RenderedHasLogging == rendered_config.some /\ rendered_config.v.logging.some

----------------------------------------------------------------------------
(* Merge of the global database sections                                   *)

\* the rendered config and the local config both have a global database
BothHaveGlobalDb ==
    /\ rendered_config.some
    /\ rendered_config.v.database.some
    /\ rendered_config.v.database.v.global.some
    /\ local_config.database.some

MasterGlobal == rendered_config.v.database.v.global.v
LocalGlobal == local_config.database.v
MergedGlobal == built.v.db_options.merged_config.m["database"]

\* a field of a struct as the JSON value its serialisation gives it
ser_field(struct, f) ==
    IF f = "pool" THEN ser_pool(struct[f].v, serde_skip_none)
    ELSE IF f = "params" THEN JObj(struct[f].v)
    ELSE struct[f].v

\* merged holds local's value where local sets the field, and master's where
\* only the master sets it; an object on both sides is looked at by `inner`
FieldByField(fields, master, local, mergedVal, inner(_, _, _, _)) ==
    \A f \in fields :
        /\ (local[f].some /\ ~(master[f].some /\ is_object(ser_field(local, f))))
               => field_or_null(mergedVal, f) = ser_field(local, f)
        /\ (master[f].some /\ ~local[f].some)
               => field_or_null(mergedVal, f) = ser_field(master, f)
        /\ (master[f].some /\ local[f].some /\ is_object(ser_field(local, f)))
               => inner(f, master[f].v, local[f].v, field_or_null(mergedVal, f))

\* the objects inside a server: `pool` field by field, `params` key by key
InsideServer(f, master, local, mergedVal) ==
    IF f = "pool"
    THEN /\ is_object(mergedVal)
         /\ \A g \in PoolFields :
              /\ local[g].some => field_or_null(mergedVal, g) = local[g].v
              /\ (master[g].some /\ ~local[g].some)
                     => field_or_null(mergedVal, g) = master[g].v
    ELSE /\ is_object(mergedVal)
         /\ \A k \in DOMAIN master \cup DOMAIN local :
              field_or_null(mergedVal, k) =
                  IF k \in DOMAIN local THEN local[k] ELSE master[k]

\* C28: when the rendered and the local config both have a global database
\* section, the merged global section has the servers of both; a server only
\* the master has is kept as it is, the master's auto_provision is kept when
\* the local section does not set it, and for a server of both sides every
\* field local sets overrides the master's while every field only the master
\* sets is kept.
C28_GlobalDatabaseMerge ==
    (BuiltOk /\ BothHaveGlobalDb /\ built.v.db_options.kind = "Manager") =>
        /\ has_key(MergedGlobal, "servers")
        /\ is_object(MergedGlobal.m["servers"])
        /\ DOMAIN MergedGlobal.m["servers"].m =
               DOMAIN MasterGlobal.servers \cup DOMAIN LocalGlobal.servers
        /\ \A n \in DOMAIN MasterGlobal.servers \ DOMAIN LocalGlobal.servers :
               MergedGlobal.m["servers"].m[n] =
                   ser_db_conn(MasterGlobal.servers[n], serde_skip_none)
        /\ field_or_null(MergedGlobal, "auto_provision") =
               IF LocalGlobal.auto_provision.some
               THEN JBool(LocalGlobal.auto_provision.v)
               ELSE IF MasterGlobal.auto_provision.some
                    THEN JBool(MasterGlobal.auto_provision.v) ELSE JNull
        /\ \A n \in DOMAIN MasterGlobal.servers \cap DOMAIN LocalGlobal.servers :
               FieldByField(DbConnFields, MasterGlobal.servers[n],
                            LocalGlobal.servers[n],
                            MergedGlobal.m["servers"].m[n], InsideServer)

\* the same statement for a serialisation that leaves None fields out
C28_WhenNoneIsSkipped == serde_skip_none => C28_GlobalDatabaseMerge

----------------------------------------------------------------------------
(* An unparseable MODKIT_MODULE_CONFIG                                     *)

\* the variable is set and its text is not a RenderedModuleConfig
EnvUnparseable == entry = "oop" /\ env_config = Some([valid |-> FALSE])

\* the results build_oop_config_and_db can give in standalone mode
StandaloneBuilds ==
    { build_oop_config_and_db(local_config, module_name, None,
                              serde_skip_none, manager_ok) :
        manager_ok \in BOOLEAN }

\* the entrypoint is past the step that reads the variable and builds
PastBuild == main \notin {"start", "load", "build"} /\ error # "config"

\* the entrypoint is past the telemetry step
PastTelemetry == PastBuild /\ main \notin {"telemetry", "failed"}

\* C29: when MODKIT_MODULE_CONFIG is set and does not parse, the entrypoint
\* does not fail because of it: the rendered config is absent, the final
\* config, the logging and the database options are those of standalone mode
\* with the same local config, and no tracing layer is built.
C29_UnparseableIsStandalone ==
    (EnvUnparseable /\ PastBuild) =>
        /\ rendered_config = None
        /\ built.some /\ built.v \in StandaloneBuilds
        /\ built.v.ok =>
               /\ built.v.final_config = local_config
               /\ built.v.merged_logging = local_config.logging
        /\ error \notin {"rendered", "tracing"}
        /\ PastTelemetry =>
               otel_layer = tracing_layer_of(opts.otel, None, local_config)

\* an OoP module with a local tracing section and the otel feature, booted
\* with an unparseable variable, is running
C29_Witness ==
    /\ EnvUnparseable /\ main = "run"
    /\ opts.otel /\ local_config.tracing.some
    /\ otel_layer = None
    /\ BuiltOk

----------------------------------------------------------------------------
(* What --print-config prints in an OoP module                             *)

\* run_oop_with_options printed a configuration and returned
OopPrinted ==
    /\ entry = "oop" /\ opts.print_config
    /\ Len(stdout) > 0

\* C23: when print_config is set, what run_oop_with_options prints is the
\* effective configuration: the final configuration merged from the rendered
\* config and the local config.
C23_PrintsEffectiveConfig ==
    OopPrinted => /\ BuiltOk
                  /\ stdout[Len(stdout)] = built.v.final_config

\* what the code prints is the local configuration as loaded
C23_PrintsLocalConfig ==
    OopPrinted => stdout[Len(stdout)] = local_config

----------------------------------------------------------------------------
(* The host binary: main (hyperspot-server/src/main.rs 65-156)             *)

\* Commands, and Cli reduced to its flags and its subcommand
Commands == {"Run", "Check", "Migrate"}
CliArgs ==
    [print_config : BOOLEAN, list_modules : BOOLEAN,
     dump_modules_config_yaml : BOOLEAN, dump_modules_config_json : BOOLEAN,
     command : {None} \cup {Some(c) : c \in Commands}]

\* the configurations the host binary loads
CliConfigs ==
    { AppConfig(None, DefaultLogging, tr, mods) :
        tr \in {None, Some(LocalTracing)},
        mods \in {EmptyMap, [m |-> EmptyObj, n |-> EmptyObj]} }

\* one of the "... and exit" flags is given
ExitFlagGiven(cli) ==
    \/ cli.print_config \/ cli.list_modules
    \/ cli.dump_modules_config_yaml \/ cli.dump_modules_config_json

\* line 143: cli.command.as_ref().unwrap_or(&Commands::Run)
command_or_run(cli) == IF cli.command.some THEN cli.command.v ELSE "Run"

\* a slip that looks at the subcommand before the flags
branch_of_command_first(cli) ==
    IF cli.command.some THEN cli.command.v
    ELSE IF cli.print_config THEN "print_config"
    ELSE IF cli.list_modules THEN "list_modules"
    ELSE IF cli.dump_modules_config_yaml THEN "dump_modules_config_yaml"
    ELSE IF cli.dump_modules_config_json THEN "dump_modules_config_json"
    ELSE "Run"

\* lines 112-147: the branch main() takes, the flags in the order of the ifs
branch_of(cli) ==
    IF cli.print_config THEN "print_config"
    ELSE IF cli.list_modules THEN "list_modules"
    ELSE IF cli.dump_modules_config_yaml THEN "dump_modules_config_yaml"
    ELSE IF cli.dump_modules_config_json THEN "dump_modules_config_json"
    ELSE command_or_run(cli)

\* the function a subcommand is dispatched to
entrypoint_of(command) ==
    IF command = "Run" THEN "run_server"
    ELSE IF command = "Check" THEN "check_config" ELSE "run_migrate"

\* what the flags print
Yaml(config) == [yaml |-> config]
ModuleList(config) == [modules |-> DOMAIN config.modules]
ModulesDump(format, config) == [dump |-> format, modules |-> config.modules]

InitCli ==
    /\ JsonIdle
    /\ local_config \in CliConfigs
    /\ module_name = "m"
    /\ rendered_config = None
    /\ serde_skip_none = TRUE
    /\ built = None
    /\ entry = "main"
    /\ main = "start"
    /\ opts \in CliArgs
    /\ env_config = None
    /\ cancel = FALSE
    /\ sig = "none"
    /\ pending = {}
    /\ delivered = 0
    /\ hb = "none"
    /\ heartbeats = 0
    /\ otel_layer = None
    /\ stdout = <<>>
    /\ error = ""
    /\ hb_failures = 0
    /\ rpcs = <<>>
    /\ phases = <<>>
    /\ oop_options = None
    /\ children = {}
    /\ migration = <<>>
    /\ called = <<>>
    /\ FsIdle

\* the variables main() leaves alone
cliFrame == <<jsonVars, buildVars, entry, opts, env_config, cancel, sig,
              pending, delivered, hb, heartbeats, otel_layer, runVars,
              fsVars>>

\* lines 67-73: Cli::parse, AppConfig::load_or_default?, apply_cli_overrides
CliLoadConfig ==
    /\ entry = "main" /\ main = "start"
    /\ \E ok \in BOOLEAN :
         /\ main' = IF ok THEN "telemetry" ELSE "exit_err"
         /\ error' = IF ok THEN error ELSE "config"
    /\ UNCHANGED <<stdout, called>>
    /\ UNCHANGED cliFrame

\* lines 75-110: the OTEL layer (init_tracing may fail when a tracing section
\* is configured) and the logging
CliInitTelemetry ==
    /\ entry = "main" /\ main = "telemetry"
    /\ \E ok \in BOOLEAN :
         /\ ~ok => local_config.tracing.some
         /\ main' = IF ok THEN "dispatch" ELSE "exit_err"
         /\ error' = IF ok THEN error ELSE "tracing"
    /\ UNCHANGED <<stdout, called>>
    /\ UNCHANGED cliFrame

\* lines 112-116: --print-config
CliPrintConfig ==
    /\ entry = "main" /\ main = "dispatch"
    /\ branch_of(opts) = "print_config"
    /\ \E yaml_ok \in BOOLEAN :
         /\ stdout' = IF yaml_ok
                      THEN stdout \o <<Line("Effective configuration:"),
                                       Yaml(local_config)>>
                      ELSE stdout
         /\ main' = IF yaml_ok THEN "exit_ok" ELSE "exit_err"
         /\ error' = IF yaml_ok THEN error ELSE "render"
    /\ UNCHANGED called
    /\ UNCHANGED cliFrame

\* lines 118-126: --list-modules
CliListModules ==
    /\ entry = "main" /\ main = "dispatch"
    /\ branch_of(opts) = "list_modules"
    /\ stdout' = stdout \o <<Line("Configured modules"),
                             ModuleList(local_config)>>
    /\ main' = "exit_ok"
    /\ UNCHANGED <<error, called>>
    /\ UNCHANGED cliFrame

\* lines 128-140: --dump-modules-config-yaml and --dump-modules-config-json
CliDumpModulesConfig ==
    /\ entry = "main" /\ main = "dispatch"
    /\ branch_of(opts) \in {"dump_modules_config_yaml",
                            "dump_modules_config_json"}
    /\ \E dump_ok \in BOOLEAN :
         /\ stdout' = IF dump_ok
                      THEN Append(stdout,
                             ModulesDump(IF branch_of(opts) =
                                            "dump_modules_config_yaml"
                                         THEN "yaml" ELSE "json",
                                         local_config))
                      ELSE stdout
         /\ main' = IF dump_ok THEN "exit_ok" ELSE "exit_err"
         /\ error' = IF dump_ok THEN error ELSE "render"
    /\ UNCHANGED called
    /\ UNCHANGED cliFrame

\* lines 142-147: the subcommand is dispatched (default: run)
CliDispatch ==
    /\ entry = "main" /\ main = "dispatch"
    /\ branch_of(opts) \in Commands
    /\ main' = entrypoint_of(branch_of(opts))
    /\ called' = Append(called, entrypoint_of(branch_of(opts)))
    /\ UNCHANGED <<stdout, error>>
    /\ UNCHANGED cliFrame

\* lines 150-156: check_config
CliCheckConfig ==
    /\ entry = "main" /\ main = "check_config"
    /\ \E yaml_ok \in BOOLEAN :
         /\ stdout' = IF yaml_ok
                      THEN stdout \o <<Line("Configuration is valid"),
                                       Yaml(local_config)>>
                      ELSE Append(stdout, Line("Configuration is valid"))
         /\ main' = IF yaml_ok THEN "exit_ok" ELSE "exit_err"
         /\ error' = IF yaml_ok THEN error ELSE "render"
    /\ UNCHANGED called
    /\ UNCHANGED cliFrame

\* lines 144 and 146: run_server or run_migrate returns its result
CliEntrypointReturns ==
    /\ entry = "main" /\ main \in {"run_server", "run_migrate"}
    /\ \E ok \in BOOLEAN :
         /\ main' = IF ok THEN "exit_ok" ELSE "exit_err"
         /\ error' = IF ok THEN error ELSE main
         /\ stdout' = IF ok /\ main = "run_migrate"
                      THEN Append(stdout, Line(OkMessage)) ELSE stdout
    /\ UNCHANGED called
    /\ UNCHANGED cliFrame

NextCli ==
    \/ CliLoadConfig \/ CliInitTelemetry
    \/ CliPrintConfig \/ CliListModules \/ CliDumpModulesConfig
    \/ CliDispatch \/ CliCheckConfig \/ CliEntrypointReturns

SpecCli == InitCli /\ [][NextCli]_vars

----------------------------------------------------------------------------
(* Claims about the host binary's dispatch                                 *)

Entrypoints == {"run_server", "check_config", "run_migrate"}

\* main() has gone through the ifs and the match of lines 112-147
PastDispatch ==
    /\ entry = "main"
    /\ main \notin {"start", "telemetry", "dispatch"}
    /\ error \notin {"config", "tracing"}

\* C24: when one of --print-config, --list-modules,
\* --dump-modules-config-yaml, --dump-modules-config-json is given, none of
\* run_server, check_config, run_migrate is ever run, whatever the
\* subcommand, and the process prints and exits successfully (with an error
\* only when rendering the output fails); when none is given, exactly one of
\* the three is run, the one of the subcommand, run_server without one.
C24_CliDispatch ==
    entry = "main" =>
        IF ExitFlagGiven(opts)
        THEN /\ called = <<>>
             /\ main \notin Entrypoints
             /\ PastDispatch =>
                    \/ main = "exit_ok" /\ stdout # <<>> /\ error = ""
                    \/ main = "exit_err" /\ stdout = <<>> /\ error = "render"
        ELSE /\ Len(called) <= 1
             /\ PastDispatch =>
                    called = <<entrypoint_of(command_or_run(opts))>>
             /\ main \in Entrypoints => called = <<main>>

\* --list-modules given together with the `migrate` subcommand: the list is
\* printed and the process has exited successfully
C24_Witness ==
    /\ entry = "main" /\ main = "exit_ok"
    /\ opts.list_modules /\ ~opts.print_config
    /\ opts.command = Some("Migrate")
    /\ stdout = <<Line("Configured modules"), ModuleList(local_config)>>
    /\ called = <<>>

\* no flag and no subcommand: run_server was run and returned
C24_DefaultRuns ==
    /\ entry = "main" /\ main = "exit_ok"
    /\ ~ExitFlagGiven(opts) /\ opts.command = None
    /\ called = <<"run_server">>

----------------------------------------------------------------------------
(* FileParserService::parse_local and its path checks                      *)
(* (file-parser domain/service.rs; exercised by path_traversal_tests.rs)   *)

MaxPathLen == 3

\* the names a path component can be
Names == {"..", "base", "sub", "other", "hello.txt", "secret.txt", "link",
          "missing"}

\* ServiceConfig.allowed_local_base_dir, canonical, and the working directory
Base == <<"base">>
Cwd == <<"base">>

\* the directories and regular files of the file system, by canonical path
Dirs == {<<>>, <<"base">>, <<"base", "sub">>, <<"other">>}
Files == {<<"base", "hello.txt">>, <<"base", "sub", "hello.txt">>,
          <<"other", "secret.txt">>}

\* what the symlink <base>/link can point to
LinkTargets == {<<"other", "secret.txt">>, <<"other">>,
                <<"base", "hello.txt">>, <<"base", "sub">>}

\* the symlinks: <base>/link when there is one, and /other/link to the base
link_target(lk, p) ==
    IF p = <<"base", "link">> /\ lk.some THEN Some(lk.v)
    ELSE IF p = <<"other", "link">> THEN Some(Base)
    ELSE None

PathInputs ==
    { [absolute |-> a, components |-> c] :
        a \in BOOLEAN,
        c \in UNION { [1..n -> Names] : n \in 1..MaxPathLen } }

\* Path::starts_with, by whole components
starts_with(p, prefix) ==
    Len(p) >= Len(prefix) /\ SubSeq(p, 1, Len(prefix)) = prefix

\* path.components().any(|c| c == Component::ParentDir)
has_parent_dir(p) == \E i \in 1..Len(p.components) : p.components[i] = ".."

front(p) == SubSeq(p, 1, Len(p) - 1)

\* std::fs::canonicalize from directory `at`: each component is resolved in
\* turn, a symlink is followed, `..` goes to the parent of the resolved
\* directory; None when a component does not exist
RECURSIVE canonical_from(_, _, _)
canonical_from(lk, at, rest) ==
    IF rest = <<>> THEN Some(at)
    ELSE IF at \notin Dirs THEN None
    ELSE LET c == Head(rest)
             next == Append(at, c)
         IN IF c = ".."
            THEN canonical_from(lk, IF at = <<>> THEN at ELSE front(at),
                                Tail(rest))
            ELSE IF link_target(lk, next).some
            THEN canonical_from(lk, link_target(lk, next).v, Tail(rest))
            ELSE IF next \in Dirs \cup Files
            THEN canonical_from(lk, next, Tail(rest))
            ELSE None

canonicalize(lk, p) ==
    canonical_from(lk, IF p.absolute THEN <<>> ELSE Cwd, p.components)

PathTraversalBlocked == Err("PathTraversalBlocked")
FileNotFound == Err("FileNotFound")

\* a slip that compares the path as written with the base, following no
\* symlink
parse_local_lexical(lk, p) ==
    IF has_parent_dir(p) THEN PathTraversalBlocked
    ELSE LET written == (IF p.absolute THEN <<>> ELSE Cwd) \o p.components
             canonical == canonicalize(lk, p)
         IN IF ~canonical.some THEN FileNotFound
            ELSE IF ~starts_with(written, Base) THEN PathTraversalBlocked
            ELSE IF canonical.v \in Files THEN Ok(canonical.v)
            ELSE Err("InvalidRequest")

\* parse_local: a `..` component is refused first, then the path is
\* canonicalized and must lie under the base; Ok carries the file parsed
parse_local(lk, p) ==
    IF has_parent_dir(p) THEN PathTraversalBlocked
    ELSE LET canonical == canonicalize(lk, p)
         IN IF ~canonical.some THEN FileNotFound
            ELSE IF ~starts_with(canonical.v, Base) THEN PathTraversalBlocked
            ELSE IF canonical.v \in Files THEN Ok(canonical.v)
            ELSE Err("InvalidRequest")

InitFs ==
    /\ JsonIdle
    /\ BuildIdle
    /\ entry = "none"
    /\ main = "idle"
    /\ opts = [print_config |-> FALSE, otel |-> FALSE]
    /\ env_config = None
    /\ cancel = FALSE
    /\ sig = "none"
    /\ pending = {}
    /\ delivered = 0
    /\ hb = "none"
    /\ heartbeats = 0
    /\ otel_layer = None
    /\ stdout = <<>>
    /\ error = ""
    /\ hb_failures = 0
    /\ rpcs = <<>>
    /\ phases = <<>>
    /\ oop_options = None
    /\ children = {}
    /\ migration = <<>>
    /\ called = <<>>
    /\ links \in {None} \cup {Some(t) : t \in LinkTargets}
    /\ path \in PathInputs
    /\ parsed = None

ParseLocal ==
    /\ parsed = None
    /\ parsed' = Some(parse_local(links, path))
    /\ UNCHANGED <<links, path>>
    /\ UNCHANGED <<jsonVars, buildVars, entry, main, opts, env_config, cancel,
                   sig, pending, delivered, hb, heartbeats, otel_layer,
                   stdout, error, runVars, called>>

NextFs == ParseLocal

SpecFs == InitFs /\ [][NextFs]_vars

----------------------------------------------------------------------------
(* Claims about parse_local                                                *)

\* where the path leads once `..` and symlinks are resolved
Resolved == canonicalize(links, path)
ResolvesOutside == Resolved.some /\ ~starts_with(Resolved.v, Base)
ResolvesToFileInside ==
    Resolved.some /\ starts_with(Resolved.v, Base) /\ Resolved.v \in Files

\* the path is the symlink <base>/link, and the symlink points outside the
\* base
SymlinkEscape ==
    /\ links.some /\ ~starts_with(links.v, Base)
    /\ (IF path.absolute THEN <<>> ELSE Cwd) \o path.components =
           <<"base", "link">>

Blocked == parsed.v = PathTraversalBlocked

\* the three rejections: `..`, outside the base, symlink out of the base
RejectsEscapes ==
    /\ has_parent_dir(path) => Blocked
    /\ ResolvesOutside => Blocked
    /\ SymlinkEscape => Blocked

\* C25: parse_local with a canonical base directory rejects with
\* PathTraversalBlocked, and never parses, every path with a `..` component,
\* every path that resolves outside the base and every symlink inside the
\* base whose target lies outside; a file that resolves inside the base
\* (a subdirectory included) is never rejected with PathTraversalBlocked.
C25_PathTraversal ==
    parsed.some =>
        /\ RejectsEscapes
        /\ ResolvesToFileInside => ~Blocked

\* C25 (as the checks allow): the same rejections; a file that resolves
\* inside the base through a path without `..` is parsed, while a path with
\* `..` is rejected even when it resolves inside the base.
C25_PathTraversalNoDotDot ==
    parsed.some =>
        /\ RejectsEscapes
        /\ (ResolvesToFileInside /\ ~has_parent_dir(path))
               => parsed.v = Ok(Resolved.v)
        /\ parsed.v.ok => /\ starts_with(parsed.v.v, Base)
                          /\ ~has_parent_dir(path)

\* <base>/link points to /other/secret.txt and was asked for by its absolute
\* path: rejected
C25_Witness ==
    /\ parsed.some
    /\ links = Some(<<"other", "secret.txt">>)
    /\ path = [absolute |-> TRUE, components |-> <<"base", "link">>]
    /\ Blocked

\* sub/../hello.txt resolves to a file inside the base and is rejected
C25_DotDotInside ==
    /\ parsed.some
    /\ path = [absolute |-> FALSE,
               components |-> <<"sub", "..", "hello.txt">>]
    /\ ResolvesToFileInside
    /\ Blocked

====
